---------------------------- MODULE Spec2Model ----------------------------
(***************************************************************************)
(* A model of scanflow's scanning engines.                                 *)
(*                                                                         *)
(*   ValueScanner  scanflow/src/value_scanner.rs                           *)
(*   PointerMap    scanflow/src/pointer_map.rs                             *)
(*   Disasm        scanflow/src/disasm.rs                                  *)
(*   Sigmaker      scanflow/src/sigmaker.rs                                *)
(*                                                                         *)
(* The target's memory is a byte array over a small address space.  The    *)
(* 4 KiB stride (0x1000) and the 256-address refinement chunk (0x100) of   *)
(* the source are scaled down to Stride and ChunkSize; a page of the       *)
(* target is one stride long.  The memory layer (memflow) is an external   *)
(* collaborator: a read delivers the bytes of the readable pages it        *)
(* covers, leaves the other bytes of the caller's buffer as they were or   *)
(* zeroes them, and may fail as a whole with a fatal error.                *)
(***************************************************************************)
EXTENDS Integers, Sequences, FiniteSets, TLC

\* ------------------------------------------------------------------ bounds
\* Scaled stride: the source steps by 0x1000 (value_scanner.rs:64,
\* pointer_map.rs:57); a page of the target is one stride.
Stride == 2
\* Scaled refinement chunk: CHUNK_SIZE = 0x100 in the source.
ChunkSize == 2
\* A caller pushes through matches_mut() only while matches is shorter.
MaxMatches == 1

\* ------------------------------------------------------------ the target
Byte == {0, 1}
\* Worker threads of the rayon pool.
Workers == {1, 2}
\* The patterns handed to scan_for.
Patterns == UNION { [1..n -> Byte] : n \in {0, 1, 2} }
MaxPatLen == CHOOSE n \in { Len(p) : p \in Patterns } : \A p \in Patterns : Len(p) <= n
\* The address space: two strides of mappable memory and the bytes after
\* them that the tail of the last stride read touches.
Addrs == 0..(2 * Stride + MaxPatLen - 2)
PageOf(a) == a \div Stride
Pages == { PageOf(a) : a \in Addrs }

\* What mapped_mem_range_vec can return: ranges <<base, size>>, disjoint and
\* sorted by base.  One range of two strides, one range whose size is not a
\* multiple of the stride (the raw-view range), two adjacent ranges.
Layouts ==
    { << <<0, 2 * Stride>> >>,
      << <<0, Stride + 1>> >>,
      << <<0, Stride>>, <<Stride, Stride>> >> }

Zeros(n) == [i \in 1..n |-> 0]

RECURSIVE IsSubseq(_, _)
\* s is t with some elements left out.
IsSubseq(s, t) ==
    IF s = <<>> THEN TRUE
    ELSE IF t = <<>> THEN FALSE
    ELSE IF Head(s) = Head(t) THEN IsSubseq(Tail(s), Tail(t))
    ELSE IsSubseq(s, Tail(t))

\* Strictly ascending, hence without duplicates.
SortedAsc(s) == \A i, j \in DOMAIN s : i < j => s[i] < s[j]

RECURSIVE Concat(_)
\* Concatenation of a sequence of sequences, in order.
Concat(ss) == IF ss = <<>> THEN <<>> ELSE Head(ss) \o Concat(Tail(ss))

Min(a, b) == IF a < b THEN a ELSE b

VARIABLES
    \* the target and the memory layer
    mem,          \* [Addrs -> Byte], the target's memory
    readable,     \* pages whose bytes a read delivers
    ranges,       \* what mapped_mem_range_vec returns
    modules,      \* what module_list returns: records [base, size]
    pe,           \* per module base: the executable header stored there
    \* ValueScanner
    scanned, matches, mem_map,
    \* scan_for in progress
    pc,           \* "idle", "sweep", "refine", "panicked"
    data,         \* the pattern of the call
    ctx_buf,      \* per-worker scratch buffer
    cursor,       \* per range: strides already pulled from the bridged iterator
    folded,       \* per range, per worker: addresses emitted so far
    old_matches,  \* refinement: the matches taken out of self
    pending,      \* refinement: chunk indices not yet processed
    outs,         \* refinement: per chunk output
    \* observations
    ret,          \* what the latest scan_for returned: "none", "Ok"
    fatal_seen,   \* a fatal error was reported to the call in progress
    n_reads,      \* reads issued by the call in progress (0 or 1: none, some)
    n_enums,      \* mapped_mem_range_vec calls made by the call in progress
    call_ok,      \* every read of the call in progress delivered every byte
    last_op,      \* the operation that produced this state
    last_call,    \* the latest completed scan_for, if nothing intervened
    \* PointerMap
    map, inverse_map, pointers,
    \* create_map in progress
    pm_pc,        \* "idle", "build"
    size_addr,    \* the pointer size of the latest create_map call
    pm_mem_map,   \* the ranges create_map enumerated
    pm_buf,       \* per-worker scratch buffer
    pm_todo,      \* strides <<range, index>> not yet processed
    pm_found,     \* per stride: the edges it emitted
    pm_last,      \* the PointerMap operation that produced this state
    \* find_matches_addrs
    w_pc,         \* "idle", "walk", "done"
    w_query,      \* the arguments of the latest call
    w_sets,       \* per search target: progress values its walk has yet to store
    pb_cnt,       \* the progress counter of the call's PBar
    w_result,     \* what the latest call returned
    \* Disasm
    dis_map, dis_inverse_map, globals,
    \* collect_globals in progress
    d_pc,         \* "idle", "collect"
    d_last,       \* the Disasm operation that produced this state
    d_modules,    \* the module list the call obtained
    d_image,      \* per-worker image buffer: the header it holds
    d_bytes,      \* per-worker decode buffer
    d_mod,        \* per module: the state of its task
    d_stack,      \* per worker: the module tasks it is inside, innermost last
    d_task,       \* per worker: the section task it is running
    d_out,        \* per module: the edges its sections emitted so far
    \* Sigmaker::find_sigs
    s_pc,         \* "idle", "rounds"
    s_target,     \* target_global of the latest call
    s_ranges,     \* the code ranges <<addr, size>> of the module
    s_states,     \* the Sigstate of every candidate
    s_rounds,     \* rounds of the loop the call has run
    s_dups,       \* dup_matches of every candidate in the latest complete scan
    s_calls,      \* calls the latest call made on the process and its memory
    s_ret,        \* what the latest call returned: "none", "Ok" or the error
    s_out,        \* the signatures the latest call returned
    \* the progress reporter (pbar.rs); its counter cnt is pb_cnt
    pb_handle,    \* "none", "some" (the PBar is live), "joining" (drop has stored !0), "joined"
    pb_thread,    \* the spawned thread: "none", "running", "exited"
    pb_shown,     \* what the bar shows: ShownNone, the last value set, ShownFinish
    pb_exits,     \* how many times the thread has left its loop
    pb_finish     \* the PBar was consumed by finish()

scanVars == << scanned, matches, mem_map,
               pc, data, ctx_buf, cursor, folded, old_matches, pending, outs,
               ret, fatal_seen, n_reads, n_enums, call_ok, last_op, last_call >>
buildVars == << map, inverse_map, pointers,
                pm_pc, size_addr, pm_mem_map, pm_buf, pm_todo, pm_found, pm_last >>
walkVars == << w_pc, w_query, w_sets, pb_cnt, w_result >>
pmVars == << buildVars, walkVars >>
disVars == << dis_map, dis_inverse_map, globals,
              d_pc, d_last, d_modules, d_image, d_bytes, d_mod, d_stack, d_task, d_out >>
pbarVars == << pb_handle, pb_thread, pb_shown, pb_exits, pb_finish >>
sigVars == << s_pc, s_target, s_ranges, s_states, s_rounds, s_dups, s_calls, s_ret, s_out >>
targetVars == << mem, readable, ranges, modules, pe >>
vars == << targetVars, scanVars, pmVars, disVars, sigVars, pbarVars >>

callVars == << data, ctx_buf, cursor, folded, old_matches, pending, outs >>
obsVars == << ret, fatal_seen, n_reads, n_enums, call_ok >>

\* last_call when no scan_for has returned since construction, reset or a
\* caller's edit.
NoCall ==
    [valid |-> FALSE, data |-> <<>>, ok |-> TRUE, again |-> FALSE,
     reads |-> 0, enums |-> 0, fatal |-> FALSE, had |-> 0]

\* -------------------------------------------------------- the memory layer
Delivered(a) == a \in Addrs /\ PageOf(a) \in readable

\* read_raw_into(addr, buf) when it reports no fatal error: the bytes of
\* readable pages arrive, the others stay (keep) or are zeroed.
ReadInto(buf, addr, keep) ==
    [i \in 1..Len(buf) |->
        IF Delivered(addr + i - 1) THEN mem[addr + i - 1]
        ELSE IF keep THEN buf[i] ELSE 0]

FullyDelivered(addr, n) == \A i \in 0..(n - 1) : Delivered(addr + i)

\* The buffer holds the bytes the memory image has from addr on (0 outside
\* the address space).
HoldsImage(buf, addr) ==
    \A i \in 1..Len(buf) :
        buf[i] = IF (addr + i - 1) \in Addrs THEN mem[addr + i - 1] ELSE 0

\* The n bytes of the memory image at a.  The bytes of an unreadable page
\* are 0 in every image.
TargetBytes(a, n) == [i \in 1..n |-> mem[a + i - 1]]

\* The memory image holds the bytes p at a.
SnapshotHolds(a, p) ==
    /\ \A i \in 1..Len(p) : (a + i - 1) \in Addrs
    /\ TargetBytes(a, Len(p)) = p

\* ------------------------------------------------------------ ValueScanner
\* The windows that lie within the first stride of the buffer only.
WindowMatchesInStride(buf, pat, start) ==
    LET n == Len(pat)
        offs == [k \in 1..(Len(buf) - 2 * n + 2) |-> k - 1]
        hit(o) == SubSeq(buf, o + 1, o + n) = pat
        hits == SelectSeq(offs, hit)
    IN  [k \in 1..Len(hits) |-> start + hits[k]]

\* buf.windows(|data|).enumerate().filter_map(..): the addresses start + o of
\* the windows equal to data, by ascending o.
WindowMatches(buf, pat, start) ==
    LET n == Len(pat)
        offs == [k \in 1..(Len(buf) - n + 1) |-> k - 1]
        hit(o) == SubSeq(buf, o + 1, o + n) = pat
        hits == SelectSeq(offs, hit)
    IN  [k \in 1..Len(hits) |-> start + hits[k]]

\* (0..size).step_by(0x1000): the number of strides of a range.
NumStrides(size) == (size + Stride - 1) \div Stride

\* old_matches.par_chunks(CHUNK_SIZE): the number of chunks and the c-th one.
NumChunks(n) == (n + ChunkSize - 1) \div ChunkSize
Chunk(ms, c) == SubSeq(ms, (c - 1) * ChunkSize + 1, Min(c * ChunkSize, Len(ms)))

\* chunk.iter().zip(buf.chunks(|data|)).filter_map(..): the addresses of the
\* chunk whose slot of the buffer equals data, in chunk order.
ChunkKeep(chunk, buf, pat) ==
    LET n == Len(pat)
        idx == [k \in 1..Len(chunk) |-> k]
        hit(k) == SubSeq(buf, (k - 1) * n + 1, k * n) = pat
        hits == SelectSeq(idx, hit)
    IN  [k \in 1..Len(hits) |-> chunk[hits[k]]]

\* A chunk output that takes the empty pattern to match everywhere.
ChunkOutKeepAll(chunk, buf, pat) ==
    IF pat = <<>> THEN chunk ELSE ChunkKeep(chunk, buf, pat)

\* The output of one chunk: nothing for the empty pattern.
ChunkOut(chunk, buf, pat) ==
    IF pat = <<>> THEN <<>> ELSE ChunkKeep(chunk, buf, pat)

\* Batched reads that fetch each slot one byte too far.
BatchIntoOffByOne(buf, chunk, n, keep) ==
    [i \in 1..Len(buf) |->
        LET k == (i - 1) \div n + 1
            j == ((i - 1) % n) + 1
        IN  IF k > Len(chunk) THEN buf[i]
            ELSE IF Delivered(chunk[k] + j) THEN mem[chunk[k] + j]
            ELSE IF keep THEN buf[i] ELSE 0]

\* The batched reads of one chunk: slot k of the buffer receives |data|
\* bytes read at chunk[k].
BatchInto(buf, chunk, n, keep) ==
    [i \in 1..Len(buf) |->
        LET k == (i - 1) \div n + 1
            j == (i - 1) % n
        IN  IF k > Len(chunk) THEN buf[i]
            ELSE IF Delivered(chunk[k] + j) THEN mem[chunk[k] + j]
            ELSE IF keep THEN buf[i] ELSE 0]

\* A target: the readable pages and a memory image over the byte values B
\* (an unreadable page holds nothing, its bytes are kept at 0).
TargetInit(B) ==
    /\ readable \in SUBSET Pages
    /\ mem \in { m \in [Addrs -> B] : \A a \in Addrs : PageOf(a) \notin readable => m[a] = 0 }

\* ValueScanner::default()
ScannerInit ==
    /\ scanned = FALSE
    /\ matches = <<>>
    /\ mem_map = <<>>
    /\ pc = "idle"
    /\ data = <<>>
    /\ ctx_buf = [w \in Workers |-> <<>>]
    /\ cursor = <<>>
    /\ folded = <<>>
    /\ old_matches = <<>>
    /\ pending = {}
    /\ outs = <<>>
    /\ ret = "none"
    /\ fatal_seen = FALSE
    /\ n_reads = 0
    /\ n_enums = 0
    /\ call_ok = TRUE
    /\ last_op = "new"
    /\ last_call = NoCall

\* w_query before the first find_matches_addrs call.
NoQuery ==
    [range |-> <<0, 0>>, max_depth |-> 0, search_for |-> <<>>, entry_points |-> <<>>]

\* PointerMap::default()
PointerMapInit ==
    /\ map = <<>>
    /\ inverse_map = <<>>
    /\ pointers = <<>>
    /\ pm_pc = "idle"
    /\ size_addr = 0
    /\ pm_mem_map = <<>>
    /\ pm_buf = [w \in Workers |-> <<>>]
    /\ pm_todo = {}
    /\ pm_found = <<>>
    /\ pm_last = "new"
    /\ w_pc = "idle"
    /\ w_query = NoQuery
    /\ w_sets = <<>>
    /\ pb_cnt = 0
    /\ w_result = <<>>

\* What the bar shows before the first pbar.set, and after pbar.finish().
ShownNone == 0 - 1
ShownFinish == 0 - 2

\* No PBar has been made.
PBarInit ==
    /\ pb_handle = "none"
    /\ pb_thread = "none"
    /\ pb_shown = ShownNone
    /\ pb_exits = 0
    /\ pb_finish = FALSE

\* An image buffer as allocated (vec![0; size::kb(128)]): no executable
\* header.
NoHeader == [valid |-> FALSE, sections |-> <<>>]
\* d_task of a worker that runs no section task.
NoTask == [mi |-> 0, start |-> 0, end |-> 0, addr |-> 0, left |-> 0, clean |-> TRUE]

\* A target whose module list is empty.
NoModules ==
    /\ modules = <<>>
    /\ pe = <<>>

\* Disasm::default()
DisasmInit ==
    /\ dis_map = <<>>
    /\ dis_inverse_map = <<>>
    /\ globals = <<>>
    /\ d_pc = "idle"
    /\ d_last = "new"
    /\ d_modules = <<>>
    /\ d_image = [w \in Workers |-> NoHeader]
    /\ d_bytes = [w \in Workers |-> <<>>]
    /\ d_mod = <<>>
    /\ d_stack = [w \in Workers |-> <<>>]
    /\ d_task = [w \in Workers |-> NoTask]
    /\ d_out = <<>>

\* No find_sigs call was made.
SigmakerInit ==
    /\ s_pc = "idle"
    /\ s_target = 0
    /\ s_ranges = <<>>
    /\ s_states = <<>>
    /\ s_rounds = 0
    /\ s_dups = <<>>
    /\ s_calls = 0
    /\ s_ret = "none"
    /\ s_out = <<>>

Init ==
    /\ TargetInit(Byte)
    /\ ranges \in Layouts
    /\ NoModules
    /\ ScannerInit
    /\ PointerMapInit
    /\ PBarInit
    /\ DisasmInit
    /\ SigmakerInit

\* ValueScanner::reset
Reset ==
    /\ pc = "idle"
    /\ scanned' = FALSE
    /\ matches' = <<>>
    /\ mem_map' = <<>>
    /\ last_op' = "reset"
    /\ last_call' = NoCall
    /\ UNCHANGED << pmVars, disVars, sigVars, targetVars, pbarVars, pc, callVars, obsVars >>

\* scan_for with self.scanned false, up to the parallel iterator: enumerate
\* the ranges into mem_map, set up the per-worker buffers.
StartSweep(p) ==
    /\ mem_map' = ranges
    /\ n_enums' = 1
    /\ pc' = "sweep"
    /\ ctx_buf' = [w \in Workers |-> Zeros(Stride + Len(p) - 1)]
    /\ cursor' = [r \in DOMAIN ranges |-> 0]
    /\ folded' = [r \in DOMAIN ranges |-> [w \in Workers |-> <<>>]]
    /\ UNCHANGED << matches, old_matches, pending, outs >>

\* scan_for with self.scanned true, up to the parallel iterator: take the
\* matches out of self, set up the per-worker buffers.
StartRefine(p) ==
    /\ old_matches' = matches
    /\ matches' = <<>>
    /\ pc' = "refine"
    /\ ctx_buf' = [w \in Workers |-> Zeros(ChunkSize * Len(p))]
    /\ pending' = 1..NumChunks(Len(matches))
    /\ outs' = [c \in 1..NumChunks(Len(matches)) |-> <<>>]
    /\ UNCHANGED << mem_map, n_enums, cursor, folded >>

\* What a call of scan_for(proc, p) does to the observations.
EnterCall(p) ==
    /\ pc = "idle"
    /\ data' = p
    /\ ret' = "none"
    /\ last_op' = "scan_for"
    /\ UNCHANGED << pmVars, disVars, sigVars, targetVars, pbarVars, scanned, fatal_seen, n_reads, call_ok, last_call >>

\* A scan_for that sweeps whether or not the scanner has scanned before.
ScanStartAlwaysSweep(p) ==
    /\ EnterCall(p)
    /\ StartSweep(p)

\* scan_for, entry: the branch on self.scanned.
ScanStart(p) ==
    /\ EnterCall(p)
    /\ IF ~scanned THEN StartSweep(p) ELSE StartRefine(p)

\* Initial sweep: worker w pulls the next stride of range r from the bridged
\* iterator, reads it into its scratch buffer and scans the windows.
SweepStride(w, r, fatal, keep) ==
    /\ pc = "sweep"
    /\ r \in DOMAIN mem_map
    /\ cursor[r] < NumStrides(mem_map[r][2])
    /\ LET address == mem_map[r][1]
           off == cursor[r] * Stride
           buf == ReadInto(ctx_buf[w], address + off, keep)
       IN  /\ cursor' = [cursor EXCEPT ![r] = @ + 1]
           /\ n_reads' = 1
           /\ IF fatal
                THEN \* .data_part().ok()? : the stride is skipped
                     /\ fatal_seen' = TRUE
                     /\ call_ok' = FALSE
                     /\ UNCHANGED << ctx_buf, folded, pc >>
                ELSE /\ ctx_buf' = [ctx_buf EXCEPT ![w] = buf]
                     /\ call_ok' = (call_ok /\ FullyDelivered(address + off, Len(buf)))
                     /\ UNCHANGED fatal_seen
                     /\ IF data = <<>>
                          THEN \* buf.windows(0) panics
                               /\ pc' = "panicked"
                               /\ UNCHANGED folded
                          ELSE /\ folded' = [folded EXCEPT ![r][w] =
                                      @ \o WindowMatches(buf, data, address + off)]
                               /\ UNCHANGED pc
    /\ UNCHANGED << pmVars, disVars, sigVars, targetVars, pbarVars, scanned, matches, mem_map >>
    /\ UNCHANGED << data, old_matches, pending, outs, ret, n_enums, last_op, last_call >>

\* What par_extend appends after the sweep: the ranges in order, and within
\* a range the workers' lists one after the other.
SweepResult ==
    Concat([r \in DOMAIN mem_map |-> Concat([w \in Workers |-> folded[r][w]])])

\* The per-call state is dropped when scan_for returns.
CallEnds ==
    /\ data' = <<>>
    /\ ctx_buf' = [w \in Workers |-> <<>>]
    /\ cursor' = <<>>
    /\ folded' = <<>>
    /\ old_matches' = <<>>
    /\ pending' = {}
    /\ outs' = <<>>
    /\ fatal_seen' = FALSE
    /\ n_reads' = 0
    /\ n_enums' = 0
    /\ call_ok' = TRUE
    /\ last_call' = [valid |-> TRUE, data |-> data, ok |-> call_ok,
                     again |-> (last_call.valid /\ last_call.ok /\ call_ok
                                /\ last_call.data = data),
                     reads |-> n_reads, enums |-> n_enums, fatal |-> fatal_seen,
                     had |-> Len(old_matches)]

\* Initial sweep, after the collection barrier: extend matches, set scanned,
\* return Ok(()).
SweepFinish ==
    /\ pc = "sweep"
    /\ \A r \in DOMAIN mem_map : cursor[r] = NumStrides(mem_map[r][2])
    /\ matches' = matches \o SweepResult
    /\ scanned' = TRUE
    /\ pc' = "idle"
    /\ ret' = "Ok"
    /\ last_op' = "sweep"
    /\ CallEnds
    /\ UNCHANGED << pmVars, disVars, sigVars, targetVars, pbarVars, mem_map >>

\* Refinement: worker w processes chunk c of old_matches.
RefineChunk(w, c, fatal, keep) ==
    /\ pc = "refine"
    /\ c \in pending
    /\ fatal => data # <<>>
    /\ LET chunk == Chunk(old_matches, c)
           n == Len(data)
           buf == IF data = <<>> \/ fatal THEN ctx_buf[w]
                  ELSE BatchInto(ctx_buf[w], chunk, n, keep)
       IN  /\ ctx_buf' = [ctx_buf EXCEPT ![w] = buf]
           /\ outs' = [outs EXCEPT ![c] = ChunkOut(chunk, buf, data)]
           /\ n_reads' = IF data = <<>> THEN n_reads ELSE 1
           /\ call_ok' = (call_ok /\ (data = <<>> \/
                  (~fatal /\ \A k \in 1..Len(chunk) : FullyDelivered(chunk[k], n))))
    /\ pending' = pending \ {c}
    /\ UNCHANGED << pmVars, disVars, sigVars, targetVars, pbarVars, scanned, matches, mem_map, pc >>
    /\ UNCHANGED << data, cursor, folded, old_matches >>
    /\ UNCHANGED << ret, fatal_seen, n_enums, last_op, last_call >>

\* The chunks' outputs in the reverse of chunk order.
RefineResultReversed ==
    Concat([c \in DOMAIN outs |-> outs[Len(outs) + 1 - c]])

\* What par_extend appends after the refinement: the chunks' outputs in
\* chunk order (par_chunks is an indexed iterator).
RefineResult == Concat(outs)

\* Refinement, after the collection barrier: extend the emptied matches,
\* return Ok(()).
RefineFinish ==
    /\ pc = "refine"
    /\ pending = {}
    /\ matches' = matches \o RefineResult
    /\ pc' = "idle"
    /\ ret' = "Ok"
    /\ last_op' = "refine"
    /\ CallEnds
    /\ UNCHANGED << pmVars, disVars, sigVars, targetVars, pbarVars, scanned, mem_map >>

\* The CLI's add: matches_mut().push(addr)
Push(a) ==
    /\ pc = "idle"
    /\ Len(matches) < MaxMatches
    /\ matches' = Append(matches, a)
    /\ last_op' = "push"
    /\ last_call' = NoCall
    /\ UNCHANGED << pmVars, disVars, sigVars, targetVars, pbarVars, scanned, mem_map, pc, callVars, obsVars >>

\* The CLI's remove: matches_mut().remove(idx); Vec::remove panics when idx
\* is out of bounds.
Remove(idx) ==
    /\ pc = "idle"
    /\ idx \in 0..Len(matches)
    /\ IF idx < Len(matches)
         THEN /\ matches' = SubSeq(matches, 1, idx) \o SubSeq(matches, idx + 2, Len(matches))
              /\ pc' = "idle"
         ELSE /\ pc' = "panicked"
              /\ UNCHANGED matches
    /\ last_op' = "remove"
    /\ last_call' = NoCall
    /\ UNCHANGED << pmVars, disVars, sigVars, targetVars, pbarVars, scanned, mem_map, callVars, obsVars >>

\* --------------------------------------------------------------- PointerMap
\* Byte values of the images create_map is run on: 0, the address of a byte
\* inside every layout's last range, and the first address past every range.
PtrBytes == {0, Stride + 1, 2 * Stride}
\* Pointer sizes handed to create_map, scaled with the stride (the callers
\* pass 4 or 8 under a stride of 0x1000).
PtrSizes == {1, 2}

\* What virt_page_map_range can return: one range of two strides, one range
\* that starts above address 0, two adjacent ranges.
PtrLayouts ==
    { << <<0, 2 * Stride>> >>,
      << <<Stride, Stride>> >>,
      << <<0, Stride>>, <<Stride, Stride>> >> }

RECURSIVE LeValue(_)
\* u64::from_le_bytes of the bytes copied to the front of a zeroed array.
LeValue(bs) == IF bs = <<>> THEN 0 ELSE Head(bs) + 256 * LeValue(Tail(bs))

\* The comparator handed to binary_search_by.
RangeCmp(rg, out_addr) ==
    IF out_addr >= rg[1] /\ out_addr < rg[1] + rg[2] THEN "Equal"
    ELSE IF rg[1] < out_addr THEN "Less"
    ELSE IF rg[1] > out_addr THEN "Greater"
    ELSE "Equal"

RECURSIVE SearchBase(_, _, _, _)
\* The halving loop of slice::binary_search_by (base is a 1-based index).
SearchBase(mm, out_addr, base, size) ==
    IF size <= 1 THEN base
    ELSE LET half == size \div 2
             mid == base + half
         IN SearchBase(mm, out_addr,
                       IF RangeCmp(mm[mid], out_addr) = "Greater" THEN base ELSE mid,
                       size - half)

\* binary_search_by(..).is_ok()
InRanges(mm, out_addr) ==
    /\ mm # <<>>
    /\ RangeCmp(mm[SearchBase(mm, out_addr, 1, Len(mm))], out_addr) = "Equal"

\* The edges of the windows that start at a multiple of the pointer size.
WindowEdgesAligned(buf, n, start, mm) ==
    LET offs == { o \in 0..(Len(buf) - n) :
                    o % n = 0 /\ InRanges(mm, LeValue(SubSeq(buf, o + 1, o + n))) }
        Nth[k \in 0..Cardinality(offs)] ==
            IF k = 0 THEN -1
            ELSE CHOOSE o \in offs : o > Nth[k - 1] /\ \A q \in offs : q > Nth[k - 1] => o <= q
    IN [k \in 1..Cardinality(offs) |->
            << start + Nth[k], LeValue(SubSeq(buf, Nth[k] + 1, Nth[k] + n)) >>]

\* The edges one stride emits: every window of size_addr bytes of the buffer
\* whose little-endian value lies in a range.
WindowEdges(buf, n, start, mm) ==
    LET offs == { o \in 0..(Len(buf) - n) : InRanges(mm, LeValue(SubSeq(buf, o + 1, o + n))) }
        Nth[k \in 0..Cardinality(offs)] ==
            IF k = 0 THEN -1
            ELSE CHOOSE o \in offs : o > Nth[k - 1] /\ \A q \in offs : q > Nth[k - 1] => o <= q
    IN [k \in 1..Cardinality(offs) |->
            << start + Nth[k], LeValue(SubSeq(buf, Nth[k] + 1, Nth[k] + n)) >>]

\* The strides <<range, index>> of the enumerated ranges.
StridesOf(mm) ==
    UNION { { <<r, k>> : k \in 0..(NumStrides(mm[r][2]) - 1) } : r \in DOMAIN mm }

RECURSIVE AscSeq(_)
\* The elements of a set of addresses in ascending order (BTreeMap order).
AscSeq(S) ==
    IF S = {} THEN <<>>
    ELSE LET m == CHOOSE x \in S : \A y \in S : x <= y
         IN <<m>> \o AscSeq(S \ {m})

RECURSIVE MapExtend(_, _)
\* BTreeMap::extend: insert the pairs in order, a later pair replacing an
\* earlier one with the same key.
MapExtend(m, es) ==
    IF es = <<>> THEN m
    ELSE LET k == Head(es)[1]
             v == Head(es)[2]
         IN MapExtend([x \in (DOMAIN m) \cup {k} |-> IF x = k THEN v ELSE m[x]], Tail(es))

RECURSIVE InversePush(_, _, _)
\* for (&k, &v) in &self.map { inverse_map.entry(v).or_default().push(k) }
InversePush(inv, ks, m) ==
    IF ks = <<>> THEN inv
    ELSE LET k == Head(ks)
             v == m[k]
             lst == IF v \in DOMAIN inv THEN Append(inv[v], k) ELSE <<k>>
         IN InversePush([x \in (DOMAIN inv) \cup {v} |-> IF x = v THEN lst ELSE inv[x]],
                        Tail(ks), m)

\* PointerMap::reset
PmReset ==
    /\ pm_pc = "idle"
    /\ map' = <<>>
    /\ inverse_map' = <<>>
    /\ pointers' = <<>>
    /\ pm_last' = "reset"
    /\ UNCHANGED << pm_pc, size_addr, pm_mem_map, pm_buf, pm_todo, pm_found >>
    /\ UNCHANGED << targetVars, pbarVars, scanVars, walkVars, disVars, sigVars >>

\* create_map without the reset it starts with.
CreateStartKeep(n) ==
    /\ pm_pc = "idle"
    /\ pm_pc' = "build"
    /\ size_addr' = n
    /\ pm_mem_map' = ranges
    /\ pm_buf' = [w \in Workers |-> Zeros(Stride + n - 1)]
    /\ pm_todo' = StridesOf(ranges)
    /\ pm_found' = [s \in StridesOf(ranges) |-> <<>>]
    /\ UNCHANGED << map, inverse_map, pointers, pm_last >>
    /\ UNCHANGED << targetVars, pbarVars, scanVars, walkVars, disVars, sigVars >>

\* create_map up to the parallel walk: reset, enumerate the ranges, set up
\* the per-worker buffers.
CreateStart(n) ==
    /\ pm_pc = "idle"
    /\ pm_pc' = "build"
    /\ map' = <<>>
    /\ inverse_map' = <<>>
    /\ pointers' = <<>>
    /\ size_addr' = n
    /\ pm_mem_map' = ranges
    /\ pm_buf' = [w \in Workers |-> Zeros(Stride + n - 1)]
    /\ pm_todo' = StridesOf(ranges)
    /\ pm_found' = [s \in StridesOf(ranges) |-> <<>>]
    /\ UNCHANGED pm_last
    /\ UNCHANGED << targetVars, pbarVars, scanVars, walkVars, disVars, sigVars >>

\* One stride of the walk, on worker w: read into the worker's buffer, then
\* decode every window.  A fatal error drops the stride.
BuildStride(w, s, fatal, keep) ==
    /\ pm_pc = "build"
    /\ s \in pm_todo
    /\ pm_todo' = pm_todo \ {s}
    /\ LET start == pm_mem_map[s[1]][1] + s[2] * Stride
           buf == ReadInto(pm_buf[w], start, keep)
       IN IF fatal
          THEN UNCHANGED << pm_buf, pm_found >>
          ELSE /\ pm_buf' = [pm_buf EXCEPT ![w] = buf]
               /\ pm_found' = [pm_found EXCEPT ![s] = WindowEdges(buf, size_addr, start, pm_mem_map)]
    /\ UNCHANGED << map, inverse_map, pointers, pm_pc, size_addr, pm_mem_map, pm_last >>
    /\ UNCHANGED << targetVars, pbarVars, scanVars, walkVars, disVars, sigVars >>

\* The pairs in the order the indexed parallel iterators yield them: range
\* by range, stride by stride, offset by offset.
BuildResult ==
    Concat([r \in DOMAIN pm_mem_map |->
              Concat([k \in 1..NumStrides(pm_mem_map[r][2]) |-> pm_found[<<r, k - 1>>]])])

\* create_map from the end of the walk: extend map, derive inverse_map and
\* pointers, return Ok.
CreateFinish ==
    /\ pm_pc = "build"
    /\ pm_todo = {}
    /\ LET m == MapExtend(map, BuildResult)
       IN /\ map' = m
          /\ inverse_map' = InversePush(inverse_map, AscSeq(DOMAIN m), m)
          /\ pointers' = AscSeq(DOMAIN m)
    /\ pm_pc' = "idle"
    /\ pm_buf' = [w \in Workers |-> <<>>]
    /\ pm_found' = <<>>
    /\ pm_last' = "create_map"
    /\ UNCHANGED << size_addr, pm_mem_map, pm_todo >>
    /\ UNCHANGED << targetVars, pbarVars, scanVars, walkVars, disVars, sigVars >>

\* ------------------------------------------------- the offset-chain walker
\* PBar::new(100000, false): the scale of the reported progress.  Progress
\* fractions are kept in units of 1/PbMax.
PbMax == 100000
\* The f32 NaN of a 0/0 fraction (a window of one address).
NaN == -1

signed_diff(a, b) == IF a >= b THEN a - b ELSE -(b - a)

Abs(x) == IF x < 0 THEN -x ELSE x

\* u64::saturating_sub
SatSub(a, n) == IF a >= n THEN a - n ELSE 0

Reverse(s) == [i \in 1..Len(s) |-> s[Len(s) + 1 - i]]

RECURSIVE SearchIdx(_, _, _, _)
\* The halving loop of slice::binary_search (base is a 1-based index).
SearchIdx(s, x, base, size) ==
    IF size <= 1 THEN base
    ELSE LET half == size \div 2
             mid == base + half
         IN SearchIdx(s, x, IF s[mid] > x THEN base ELSE mid, size - half)

\* startpoints.binary_search(&min).unwrap_or_else(|x| x), a 0-based index.
LowerIdx(s, x) ==
    IF s = <<>> THEN 0
    ELSE LET b == SearchIdx(s, x, 1, Len(s))
         IN IF s[b] < x THEN b ELSE b - 1

RECURSIVE TakeWhileLe(_, _, _)
\* .skip(idx).take_while(|&v| v <= max), from the 1-based index j.
TakeWhileLe(s, j, max) ==
    IF j > Len(s) \/ s[j] > max THEN <<>>
    ELSE <<s[j]>> \o TakeWhileLe(s, j + 1, max)

\* The first candidate of the window, whatever its distance.
PickFirst(addr, m, rest) == m

RECURSIVE PickClosestLe(_, _, _)
\* The fold with <= in place of <.
PickClosestLe(addr, m, rest) ==
    IF rest = <<>> THEN m
    ELSE PickClosestLe(addr,
                       IF Abs(signed_diff(addr, Head(rest))) <= Abs(signed_diff(addr, m))
                       THEN Head(rest) ELSE m,
                       Tail(rest))

RECURSIVE PickClosest(_, _, _)
\* for e in iter { if |addr - e| < |addr - m| { m = e } }
PickClosest(addr, m, rest) ==
    IF rest = <<>> THEN m
    ELSE PickClosest(addr,
                     IF Abs(signed_diff(addr, Head(rest))) < Abs(signed_diff(addr, m))
                     THEN Head(rest) ELSE m,
                     Tail(rest))

\* pb_start + (pb_end - pb_start) * (num / den)
Scale(pbs, pbe, num, den) ==
    IF pbs = NaN \/ pbe = NaN \/ den = 0 THEN NaN
    ELSE pbs + ((pbe - pbs) * num) \div den

\* new_start + part * i
Shift(start, part, i) == IF start = NaN \/ part = NaN THEN NaN ELSE start + part * i

\* The chain pushed without the reversal of the stack.
EntryChainUnreversed(q, addr, tmp, e) ==
    << q.final_addr, Append(tmp, <<e, signed_diff(addr, e)>>) >>

\* The chain pushed for the entry point e found around addr.
EntryChain(q, addr, tmp, e) ==
    << q.final_addr, Reverse(Append(tmp, <<e, signed_diff(addr, e)>>)) >>

\* The recursion stopping one level early.
DescendsShort(level, max_levels) == level + 1 < max_levels

\* "Recurse downwards if possible"
Descends(level, max_levels) == level < max_levels

\* self.inverse_map.range((Included(&min), Included(&max))), in key order.
WindowKeys(min, max) ==
    AscSeq({ k \in DOMAIN inverse_map : min <= k /\ k <= max })

\* The sources of k without the addresses the walk already went through
\* (tmp holds, per level, the key and its offset from the walked address).
SourcesUnvisited(tmp, k) ==
    SelectSeq(inverse_map[k],
              LAMBDA v : \A i \in DOMAIN tmp : tmp[i][1] + tmp[i][2] # v)

\* vec: the sources the loop over one key recurses into; tmp is the stack
\* with (k, off) pushed.
Sources(tmp, k) == inverse_map[k]

RECURSIVE WalkDownRange(_, _, _, _, _, _)
RECURSIVE WalkKeys(_, _, _, _, _, _, _, _)
RECURSIVE WalkVec(_, _, _, _, _, _, _, _)

\* walk_down_range(addr, .., level, ..) with the stack tmp and the progress
\* interval (pbs, pbe).  q holds the arguments that do not change: lrange,
\* urange, max_levels, startpoints, final_addr.  The result is what the call
\* appended to out and the values it stored into the progress counter.
WalkDownRange(q, addr, level, tmp, pbs, pbe) ==
    LET min == SatSub(addr, q.urange)
        max == addr + q.lrange
        cand == TakeWhileLe(q.startpoints, LowerIdx(q.startpoints, min) + 1, max)
        pushed == IF cand = <<>> THEN <<>>
                  ELSE << EntryChain(q, addr, tmp, PickClosest(addr, Head(cand), Tail(cand))) >>
        keys == WindowKeys(min, max)
        acc == [out |-> pushed, sets |-> <<>>]
    IN IF Descends(level, q.max_levels)
       THEN WalkKeys(q, addr, level, tmp, <<pbs, pbe>>, <<min, max, min>>, keys, acc)
       ELSE acc

\* The loop over inverse_map.range(min..=max); win = <<min, max, last>>,
\* pb = <<pb_start, pb_end>>.
WalkKeys(q, addr, level, tmp, pb, win, ks, acc) ==
    IF ks = <<>> THEN acc
    ELSE LET k == Head(ks)
             new_start == Scale(pb[1], pb[2], win[3] - win[1], win[2] - win[1])
             new_end == Scale(pb[1], pb[2], k - win[1], win[2] - win[1])
             pushed == Append(tmp, <<k, signed_diff(addr, k)>>)
             vec == Sources(pushed, k)
             part == IF new_start = NaN \/ new_end = NaN THEN NaN
                     ELSE (new_end - new_start) \div Len(vec)
             sub == WalkVec(q, level, pushed, vec, 0, new_start, part, acc)
             stored == IF new_end # NaN /\ pb[1] # NaN /\ new_end - pb[1] >= 1
                       THEN Append(sub.sets, new_end) ELSE sub.sets
         IN WalkKeys(q, addr, level, tmp, pb, <<win[1], win[2], k>>, Tail(ks),
                     [out |-> sub.out, sets |-> stored])

\* The loop over the sources of one key.
WalkVec(q, level, tmp, vec, i, new_start, part, acc) ==
    IF i >= Len(vec) THEN acc
    ELSE LET r == WalkDownRange(q, vec[i + 1], level + 1, tmp,
                                Shift(new_start, part, i), Shift(new_start, part, i + 1))
         IN WalkVec(q, level, tmp, vec, i + 1, new_start, part,
                    [out |-> acc.out \o r.out, sets |-> acc.sets \o r.sets])

\* The closure find_matches_addrs runs for the i-th search target (i from 0).
WalkTarget(c, i) ==
    LET n == Len(c.search_for)
        m == c.search_for[i + 1]
        q == [lrange |-> c.range[1], urange |-> c.range[2], max_levels |-> c.max_depth,
              startpoints |-> c.entry_points, final_addr |-> m]
        r == WalkDownRange(q, m, 1, <<>>, (PbMax * i) \div n, (PbMax * (i + 1)) \div n)
    IN [out |-> r.out, sets |-> Append(r.sets, (PbMax * (i + 1)) \div n)]

\* find_matches_addrs up to the parallel walk: a fresh progress counter, one
\* walk per search target.
FindMatchesAddrs(c) ==
    /\ pm_pc = "idle"
    /\ w_pc = "idle"
    /\ w_pc' = "walk"
    /\ w_query' = c
    /\ w_sets' = [i \in 1..Len(c.search_for) |-> WalkTarget(c, i - 1).sets]
    /\ pb_cnt' = 0
    /\ w_result' = <<>>
    /\ UNCHANGED << targetVars, pbarVars, scanVars, buildVars, disVars, sigVars >>

\* The caller drops the returned chains.
FindDrop ==
    /\ w_pc = "done"
    /\ w_pc' = "idle"
    /\ w_query' = NoQuery
    /\ w_result' = <<>>
    /\ pb_cnt' = 0
    /\ UNCHANGED w_sets
    /\ UNCHANGED << targetVars, pbarVars, scanVars, buildVars, disVars, sigVars >>

\* find_matches: the walk from every pointer of the map.
FindMatches(range, max_depth, search_for) ==
    FindMatchesAddrs([range |-> range, max_depth |-> max_depth,
                      search_for |-> search_for, entry_points |-> pointers])

\* pb.set: the walk of the i-th target stores its next progress value.
PbSet(i) ==
    /\ w_pc = "walk"
    /\ i \in DOMAIN w_sets
    /\ w_sets[i] # <<>>
    /\ pb_cnt' = Head(w_sets[i])
    /\ w_sets' = [w_sets EXCEPT ![i] = Tail(w_sets[i])]
    /\ UNCHANGED << w_pc, w_query, w_result >>
    /\ UNCHANGED << targetVars, pbarVars, scanVars, buildVars, disVars, sigVars >>

\* The chains in the order par_extend collects them: target by target.
FindResult ==
    Concat([i \in 1..Len(w_query.search_for) |-> WalkTarget(w_query, i - 1).out])

\* find_matches_addrs from the end of the walk: collect and return.
FindFinish ==
    /\ w_pc = "walk"
    /\ \A i \in DOMAIN w_sets : w_sets[i] = <<>>
    /\ w_result' = FindResult
    /\ w_pc' = "done"
    /\ w_sets' = <<>>
    /\ UNCHANGED << w_query, pb_cnt >>
    /\ UNCHANGED << targetVars, pbarVars, scanVars, buildVars, disVars, sigVars >>

\* ------------------------------------------------------------------ Disasm
\* Scaled CHUNK_SIZE of collect_globals (size::mb(2) in the source).
DChunk == 2
\* Scaled slack of the decode buffer (CHUNK_SIZE + 32 in the source): the
\* bytes an instruction that starts inside a chunk can reach past its end.
DSlack == 1

\* The decoder (iced_x86) is an external collaborator.  Its instruction set
\* is scaled down to seven opcodes: a one-byte instruction without a memory
\* operand (any byte but the six below), a two-byte instruction with an
\* IP-relative memory operand (OpMem, displacement), a two-byte near branch
\* (OpBranch, one byte of relative target), a three-byte near branch
\* (OpLong, two bytes of relative target, little-endian), a two-byte
\* instruction with a memory operand based on a general register (OpBase,
\* displacement), a two-byte instruction with a memory operand without a
\* base register (OpAbs, displacement) and a byte that is no instruction (OpBad: the decoder
\* returns INVALID for it and goes on behind it).
OpMem == 1
OpBranch == 2
OpLong == 3
OpBase == 4
OpAbs == 5
OpBad == 6
CodeBytes == {0, OpMem, OpBranch}

\* Decoder::decode at position i of buf, the instruction pointer being ip.
\* An instruction cut short by the end of the buffer decodes as invalid.
Decode(buf, i, ip) ==
    IF buf[i] = OpBad
    THEN [ip |-> ip, len |-> 1, invalid |-> TRUE, is_ip_rel_memory_operand |-> FALSE,
          ip_rel_memory_address |-> 0, near_branch_target |-> 0, memory_base |-> "None",
          has_displacement |-> FALSE]
    ELSE IF buf[i] \in {OpMem, OpBranch, OpBase, OpAbs} /\ i = Len(buf)
    THEN [ip |-> ip, len |-> 1, invalid |-> TRUE, is_ip_rel_memory_operand |-> FALSE,
          ip_rel_memory_address |-> 0, near_branch_target |-> 0, memory_base |-> "None",
          has_displacement |-> FALSE]
    ELSE IF buf[i] = OpLong /\ i + 2 > Len(buf)
    THEN [ip |-> ip, len |-> Len(buf) - i + 1, invalid |-> TRUE,
          is_ip_rel_memory_operand |-> FALSE,
          ip_rel_memory_address |-> 0, near_branch_target |-> 0, memory_base |-> "None",
          has_displacement |-> FALSE]
    ELSE IF buf[i] = OpLong
    THEN [ip |-> ip, len |-> 3, invalid |-> FALSE, is_ip_rel_memory_operand |-> FALSE,
          ip_rel_memory_address |-> 0,
          near_branch_target |-> ip + 3 + buf[i + 1] + 256 * buf[i + 2],
          memory_base |-> "None", has_displacement |-> FALSE]
    ELSE IF buf[i] = OpMem
    THEN [ip |-> ip, len |-> 2, invalid |-> FALSE, is_ip_rel_memory_operand |-> TRUE,
          ip_rel_memory_address |-> ip + 2 + buf[i + 1], near_branch_target |-> 0,
          memory_base |-> "RIP", has_displacement |-> TRUE]
    ELSE IF buf[i] = OpBranch
    THEN [ip |-> ip, len |-> 2, invalid |-> FALSE, is_ip_rel_memory_operand |-> FALSE,
          ip_rel_memory_address |-> 0, near_branch_target |-> ip + 2 + buf[i + 1],
          memory_base |-> "None", has_displacement |-> FALSE]
    ELSE IF buf[i] = OpAbs
    THEN [ip |-> ip, len |-> 2, invalid |-> FALSE, is_ip_rel_memory_operand |-> FALSE,
          ip_rel_memory_address |-> 0, near_branch_target |-> 0, memory_base |-> "None",
          has_displacement |-> TRUE]
    ELSE IF buf[i] = OpBase
    THEN [ip |-> ip, len |-> 2, invalid |-> FALSE, is_ip_rel_memory_operand |-> FALSE,
          ip_rel_memory_address |-> 0, near_branch_target |-> 0, memory_base |-> "RBX",
          has_displacement |-> TRUE]
    ELSE [ip |-> ip, len |-> 1, invalid |-> FALSE, is_ip_rel_memory_operand |-> FALSE,
          ip_rel_memory_address |-> 0, near_branch_target |-> 0, memory_base |-> "None",
          has_displacement |-> FALSE]

RECURSIVE DecodeFrom(_, _, _)
\* decoder.into_iter(): the instructions from position i to the end of buf.
DecodeFrom(buf, i, ip) ==
    IF i > Len(buf) THEN <<>>
    ELSE LET ins == Decode(buf, i, ip)
         IN <<ins>> \o DecodeFrom(buf, i + ins.len, ip + ins.len)

\* .filter(|i| i.ip() < end)
BeforeEnd(instrs, end) ==
    LET Test(ins) == ins.ip < end
    IN SelectSeq(instrs, Test)

\* .filter(is_ip_rel_memory_operand).filter(near_branch_target == 0).map(..)
ChunkEdges(instrs) ==
    LET Test(ins) == ins.is_ip_rel_memory_operand /\ ins.near_branch_target = 0
        kept == SelectSeq(instrs, Test)
    IN [k \in DOMAIN kept |-> << kept[k].ip, kept[k].ip_rel_memory_address >>]

\* addr after a chunk when it is moved by CHUNK_SIZE only.
NextAddrFixed(addr, instrs) == addr + DChunk

\* addr after a chunk: addr += CHUNK_SIZE, then the end of every instruction
\* that passes the first filter.
NextAddr(addr, instrs) ==
    IF instrs = <<>> THEN addr + DChunk
    ELSE instrs[Len(instrs)].ip + instrs[Len(instrs)].len

\* The length of (start..end).step_by(CHUNK_SIZE).
ChunksOf(vsize) == (vsize + DChunk - 1) \div DChunk

\* The section header the bridged iterator yields at index i of the section
\* table of an image buffer.  The table's length was fixed when the buffer
\* was parsed; where the buffer now holds a shorter table, or no header, the
\* entry reads as zero bytes.
SectionAt(img, i) ==
    IF img.valid /\ i <= Len(img.sections) THEN img.sections[i]
    ELSE [va |-> 0, vsize |-> 0, code |-> FALSE]

\* d_mod of a module whose task has not started / has returned.
ModTodo == [st |-> "todo", owner |-> 0, nsec |-> 0, next |-> 0, running |-> 0]
ModDone == [st |-> "done", owner |-> 0, nsec |-> 0, next |-> 0, running |-> 0]

\* Disasm::reset
DisReset ==
    /\ d_pc = "idle"
    /\ dis_map' = <<>>
    /\ dis_inverse_map' = <<>>
    /\ globals' = <<>>
    /\ d_last' = "reset"
    /\ UNCHANGED << d_pc, d_modules, d_image, d_bytes, d_mod, d_stack, d_task, d_out >>
    /\ UNCHANGED << targetVars, pbarVars, scanVars, pmVars, sigVars >>

\* collect_globals without the reset it starts with.
CollectStartKeep(fail) ==
    /\ d_pc = "idle"
    /\ IF fail
       THEN /\ d_last' = "collect_err"
            /\ UNCHANGED << d_pc, d_modules, d_image, d_bytes, d_mod, d_stack, d_task, d_out >>
       ELSE /\ d_pc' = "collect"
            /\ d_modules' = modules
            /\ d_image' = [w \in Workers |-> NoHeader]
            /\ d_bytes' = [w \in Workers |-> Zeros(DChunk + DSlack)]
            /\ d_mod' = [mi \in DOMAIN modules |-> ModTodo]
            /\ d_out' = [mi \in DOMAIN modules |-> <<>>]
            /\ UNCHANGED << d_last, d_stack, d_task >>
    /\ UNCHANGED << dis_map, dis_inverse_map, globals >>
    /\ UNCHANGED << targetVars, pbarVars, scanVars, pmVars, sigVars >>

\* collect_globals up to the parallel walk: reset, then module_list, whose
\* failure (fail) ends the call with the error; else set up the per-worker
\* buffers.
CollectStart(fail) ==
    /\ d_pc = "idle"
    /\ dis_map' = <<>>
    /\ dis_inverse_map' = <<>>
    /\ globals' = <<>>
    /\ IF fail
       THEN /\ d_last' = "collect_err"
            /\ UNCHANGED << d_pc, d_modules, d_image, d_bytes, d_mod, d_stack, d_task, d_out >>
       ELSE /\ d_pc' = "collect"
            /\ d_modules' = modules
            /\ d_image' = [w \in Workers |-> NoHeader]
            /\ d_bytes' = [w \in Workers |-> Zeros(DChunk + DSlack)]
            /\ d_mod' = [mi \in DOMAIN modules |-> ModTodo]
            /\ d_out' = [mi \in DOMAIN modules |-> <<>>]
            /\ UNCHANGED << d_last, d_stack, d_task >>
    /\ UNCHANGED << targetVars, pbarVars, scanVars, pmVars, sigVars >>

\* The task of module mi up to its section walk, on worker w: read the image
\* into the worker's buffer and parse it.  A fatal error or a buffer that
\* does not parse drops the module.  A worker waiting for the section walk
\* of a module it is inside may take the task of another module.
ModuleTask(w, mi, fatal, keep) ==
    /\ d_pc = "collect"
    /\ d_mod[mi].st = "todo"
    /\ d_task[w] = NoTask
    /\ LET base == d_modules[mi].base
           img == IF Delivered(base) THEN pe[base]
                  ELSE IF keep THEN d_image[w] ELSE NoHeader
       IN IF fatal
          THEN /\ d_mod' = [d_mod EXCEPT ![mi] = ModDone]
               /\ UNCHANGED << d_image, d_stack >>
          ELSE /\ d_image' = [d_image EXCEPT ![w] = img]
               /\ IF img.valid
                  THEN /\ d_mod' = [d_mod EXCEPT ![mi] =
                                      [st |-> "open", owner |-> w, nsec |-> Len(img.sections),
                                       next |-> 1, running |-> 0]]
                       /\ d_stack' = [d_stack EXCEPT ![w] = Append(@, mi)]
                  ELSE /\ d_mod' = [d_mod EXCEPT ![mi] = ModDone]
                       /\ UNCHANGED d_stack
    /\ UNCHANGED << dis_map, dis_inverse_map, globals, d_pc, d_last, d_modules, d_bytes,
                    d_task, d_out >>
    /\ UNCHANGED << targetVars, pbarVars, scanVars, pmVars, sigVars >>

\* Worker w pulls the next section of module mi from the bridged iterator:
\* the header is read from the image buffer of the module's worker, a
\* section without the code flag is filtered out, a code section becomes
\* the worker's section task.
SectionPull(w, mi) ==
    /\ d_pc = "collect"
    /\ d_mod[mi].st = "open"
    /\ d_mod[mi].next <= d_mod[mi].nsec
    /\ d_task[w] = NoTask
    /\ LET section == SectionAt(d_image[d_mod[mi].owner], d_mod[mi].next)
           start == d_modules[mi].base + section.va
           end == start + section.vsize
       IN IF section.code /\ ChunksOf(section.vsize) > 0
          THEN /\ d_task' = [d_task EXCEPT ![w] =
                                [mi |-> mi, start |-> start, end |-> end, addr |-> start,
                                 left |-> ChunksOf(section.vsize), clean |-> TRUE]]
               /\ d_mod' = [d_mod EXCEPT ![mi].next = @ + 1, ![mi].running = @ + 1]
          ELSE /\ d_mod' = [d_mod EXCEPT ![mi].next = @ + 1]
               /\ UNCHANGED d_task
    /\ UNCHANGED << dis_map, dis_inverse_map, globals, d_pc, d_last, d_modules, d_image,
                    d_bytes, d_stack, d_out >>
    /\ UNCHANGED << targetVars, pbarVars, scanVars, pmVars, sigVars >>

\* One chunk of the section task of worker w: read into the worker's decode
\* buffer, decode it from addr, keep the edges.  A fatal error drops the
\* chunk and leaves addr where it was.  The task's clean flag records that
\* no chunk read of the task so far reported an error or left in the buffer
\* a byte that differs from the memory image.
ChunkStep(w, fatal, keep) ==
    /\ d_pc = "collect"
    /\ d_task[w] # NoTask
    /\ LET t == d_task[w]
           end == Min(t.end, t.addr + DChunk)
           bytes == ReadInto(d_bytes[w], t.addr, keep)
           instrs == BeforeEnd(DecodeFrom(bytes, 1, t.addr), end)
           after == IF fatal THEN t.addr ELSE NextAddr(t.addr, instrs)
       IN /\ IF fatal
             THEN UNCHANGED << d_bytes, d_out >>
             ELSE /\ d_bytes' = [d_bytes EXCEPT ![w] = bytes]
                  /\ d_out' = [d_out EXCEPT ![t.mi] = @ \o ChunkEdges(instrs)]
          /\ IF t.left = 1
             THEN /\ d_task' = [d_task EXCEPT ![w] = NoTask]
                  /\ d_mod' = [d_mod EXCEPT ![t.mi].running = @ - 1]
             ELSE /\ d_task' = [d_task EXCEPT ![w].addr = after, ![w].left = @ - 1,
                                                 ![w].clean = @ /\ ~fatal /\ HoldsImage(bytes, t.addr)]
                  /\ UNCHANGED d_mod
    /\ UNCHANGED << dis_map, dis_inverse_map, globals, d_pc, d_last, d_modules, d_image,
                    d_stack >>
    /\ UNCHANGED << targetVars, pbarVars, scanVars, pmVars, sigVars >>

\* The task of module mi from the end of its section walk: every section
\* was pulled and walked, and the module's worker is back in this task.
ModuleClose(mi) ==
    /\ d_pc = "collect"
    /\ d_mod[mi].st = "open"
    /\ d_mod[mi].next > d_mod[mi].nsec
    /\ d_mod[mi].running = 0
    /\ LET w == d_mod[mi].owner
       IN /\ d_task[w] = NoTask
          /\ d_stack[w][Len(d_stack[w])] = mi
          /\ d_stack' = [d_stack EXCEPT ![w] = SubSeq(@, 1, Len(@) - 1)]
    /\ d_mod' = [d_mod EXCEPT ![mi] = ModDone]
    /\ UNCHANGED << dis_map, dis_inverse_map, globals, d_pc, d_last, d_modules, d_image,
                    d_bytes, d_task, d_out >>
    /\ UNCHANGED << targetVars, pbarVars, scanVars, pmVars, sigVars >>

\* The pairs in the order the indexed iterator over the modules yields them.
CollectResult == Concat([mi \in DOMAIN d_modules |-> d_out[mi]])

\* collect_globals from the end of the walk: extend map, derive inverse_map
\* and globals, return Ok.
CollectFinish ==
    /\ d_pc = "collect"
    /\ \A mi \in DOMAIN d_mod : d_mod[mi].st = "done"
    /\ LET m == MapExtend(dis_map, CollectResult)
           inv == InversePush(dis_inverse_map, AscSeq(DOMAIN m), m)
       IN /\ dis_map' = m
          /\ dis_inverse_map' = inv
          /\ globals' = AscSeq(DOMAIN inv)
    /\ d_pc' = "idle"
    /\ d_last' = "collect_globals"
    /\ d_out' = <<>>
    /\ d_mod' = <<>>
    /\ d_image' = [w \in Workers |-> NoHeader]
    /\ d_bytes' = [w \in Workers |-> <<>>]
    /\ UNCHANGED << d_modules, d_stack, d_task >>
    /\ UNCHANGED << targetVars, pbarVars, scanVars, pmVars, sigVars >>

\* ---------------------------------------------------------------- Sigmaker
\* Scaled MAX_SIG_LENGTH (128 in the source).
SigLen == 3
\* Scaled CHUNK_SIZE of has_unique_matches (size::kb(4) in the source).
SigChunk == 2

\* instr.memory_base() of the scaled decoder's instructions: the IP register
\* for an IP-relative operand, a general register for OpBase, Register::None
\* for OpAbs and without a memory operand.
memory_base(ins) == ins.memory_base
\* The base registers whose displacement mask_instr wildcards.
MaskedBases == {"EIP", "RIP", "ES", "CS", "SS", "DS", "FS", "GS", "None"}
\* instr.try_op_kind(0) is a near or far branch.
IsBranchOp(ins) == ins.near_branch_target # 0

\* decoder.get_constant_offsets(&instr): the displacement of a memory
\* operand is the second byte, the immediate of a branch is every byte after
\* the opcode.
ConstantOffsets(ins) ==
    [has_displacement |-> ins.has_displacement,
     displacement_offset |-> IF ins.has_displacement THEN 1 ELSE 0,
     displacement_size |-> IF ins.has_displacement THEN 1 ELSE 0,
     has_immediate |-> IsBranchOp(ins),
     immediate_offset |-> IF IsBranchOp(ins) THEN 1 ELSE 0,
     immediate_size |-> IF IsBranchOp(ins) THEN ins.len - 1 ELSE 0]

\* Sigstate::mask_mem
mask_mem(offsets, mask) ==
    IF offsets.has_displacement
    THEN [i \in DOMAIN mask |->
            IF i - 1 >= offsets.displacement_offset
               /\ i - 1 < offsets.displacement_offset + offsets.displacement_size
            THEN 0 ELSE mask[i]]
    ELSE mask

\* mask_branch leaving the first immediate byte unmasked.
mask_branch_rest(offsets, mask, unmasked_branch_size) ==
    IF offsets.has_immediate /\ offsets.immediate_size > unmasked_branch_size
    THEN [i \in DOMAIN mask |->
            IF i - 1 >= offsets.immediate_offset + unmasked_branch_size
               /\ i - 1 < offsets.immediate_offset + offsets.immediate_size
            THEN 0 ELSE mask[i]]
    ELSE mask

\* Sigstate::mask_branch
mask_branch(offsets, mask, unmasked_branch_size) ==
    IF offsets.has_immediate /\ offsets.immediate_size > unmasked_branch_size
    THEN [i \in DOMAIN mask |->
            IF i - 1 >= offsets.immediate_offset
               /\ i - 1 < offsets.immediate_offset + offsets.immediate_size
            THEN 0 ELSE mask[i]]
    ELSE mask

\* mask_instr wildcarding the displacement whatever the base register.
mask_instr_any_base(ins, offsets, mask) ==
    LET m1 == mask_mem(offsets, mask)
    IN IF IsBranchOp(ins) THEN mask_branch(offsets, m1, 1) ELSE m1

\* Sigstate::mask_instr on the instruction's mask bytes, all 0xff before.
mask_instr(ins, offsets, mask) ==
    LET m1 == IF memory_base(ins) \in MaskedBases THEN mask_mem(offsets, mask) ELSE mask
    IN IF IsBranchOp(ins) THEN mask_branch(offsets, m1, 1) ELSE m1

\* add_single_instr with a decoder that accepts without moving on.
add_single_instr_stay(st) ==
    IF st.pos >= Len(st.buf) THEN [state |-> st, added |-> FALSE]
    ELSE [state |-> [st EXCEPT !.mask = @ \o << 255 >>, !.instrs = @ + 1], added |-> TRUE]

\* Sigstate::add_single_instr: the state after the call and what it returned.
\* pos is the decoder's position in buf.
add_single_instr(st) ==
    IF st.pos >= Len(st.buf) THEN [state |-> st, added |-> FALSE]
    ELSE LET ins == Decode(st.buf, st.pos + 1, st.start_ip + st.pos)
         IN IF ins.invalid
            THEN [state |-> [st EXCEPT !.pos = @ + ins.len], added |-> FALSE]
            ELSE [state |-> [st EXCEPT !.pos = @ + ins.len,
                                       !.mask = @ \o mask_instr(ins, ConstantOffsets(ins),
                                                                [i \in 1..ins.len |-> 255]),
                                       !.instrs = @ + 1],
                  added |-> TRUE]

\* w & m for the mask bytes 0x00 and 0xff.
And(w, m) == IF m = 255 THEN w ELSE IF m = 0 THEN 0 ELSE w

\* win_iter.eq(bytes_iter): both zipped with the mask.
MaskedEq(w, bytes, mask) ==
    \A i \in 1..Min(Len(mask), Min(Len(w), Len(bytes))) : And(w[i], mask[i]) = And(bytes[i], mask[i])

HexDigits == << "0", "1", "2", "3", "4", "5", "6", "7", "8", "9", "A", "B", "C", "D", "E", "F" >>
\* format!("{:X}", b) of a u8: no leading zero.
HexNoPad(b) ==
    IF b < 16 THEN << HexDigits[b + 1] >>
    ELSE << HexDigits[(b \div 16) + 1], HexDigits[(b % 16) + 1] >>

\* format!("{:02X}", b) of a u8
Hex2(b) == << HexDigits[(b \div 16) + 1], HexDigits[(b % 16) + 1] >>

RECURSIVE Join(_)
\* .join(" ") of a list of tokens; a string is a sequence of characters.
Join(tokens) ==
    IF tokens = <<>> THEN <<>>
    ELSE IF Len(tokens) = 1 THEN tokens[1]
    ELSE tokens[1] \o << " " >> \o Join(Tail(tokens))

\* Sigmaker::bytes_to_string
bytes_to_string(bytes, mask) ==
    Join([i \in 1..Min(Len(bytes), Len(mask)) |->
            IF mask[i] = 0 THEN << "?" >> ELSE Hex2(bytes[i])])

\* The addresses has_unique_matches reads at: every range by strides of the
\* chunk size.
ScanChunks(rgs) ==
    Concat([r \in DOMAIN rgs |->
              [k \in 1..((rgs[r][2] + SigChunk - 1) \div SigChunk) |->
                  rgs[r][1] + (k - 1) * SigChunk]])

\* The duplicate matches of a chunk, only its first window being compared.
ChunkDupsFirstWindow(st, buf, addr) ==
    Cardinality({ off \in {0} :
                    /\ MaskedEq(SubSeq(buf, off + 1, off + SigLen), st.buf, st.mask)
                    /\ addr + off # st.start_ip })

\* The duplicate matches of a chunk, the windows at the other candidates'
\* addresses being left out as well.
ChunkDupsNoCandidates(st, buf, addr) ==
    Cardinality({ off \in 0..(Len(buf) - SigLen) :
                    /\ MaskedEq(SubSeq(buf, off + 1, off + SigLen), st.buf, st.mask)
                    /\ \A k \in DOMAIN s_states : addr + off # s_states[k].start_ip })

\* The duplicate matches one chunk adds for the candidate st: the windows of
\* the buffer read at addr that equal the candidate's bytes under its mask
\* and do not start at its start_ip.
ChunkDups(st, buf, addr) ==
    Cardinality({ off \in 0..(Len(buf) - SigLen) :
                    /\ MaskedEq(SubSeq(buf, off + 1, off + SigLen), st.buf, st.mask)
                    /\ addr + off # st.start_ip })

RECURSIVE DupMatches(_, _, _, _, _)
\* dup_matches of every candidate after the chunks cs, the buffer being
\* reused from chunk to chunk.
DupMatches(sts, cs, buf, keep, dups) ==
    IF cs = <<>> THEN dups
    ELSE LET b == ReadInto(buf, Head(cs), keep)
         IN DupMatches(sts, Tail(cs), b, keep,
                       [k \in DOMAIN sts |-> dups[k] + ChunkDups(sts[k], b, Head(cs))])

\* The strings of the candidates without a duplicate match, last candidate
\* first.
UniqueSigsReversed(sts, dups) ==
    LET Test(k) == dups[k] = 0
        ks == SelectSeq([k \in DOMAIN sts |-> k], Test)
    IN [i \in DOMAIN ks |->
          bytes_to_string(sts[ks[Len(ks) + 1 - i]].buf, sts[ks[Len(ks) + 1 - i]].mask)]

\* The strings has_unique_matches pushes: one per candidate without a
\* duplicate match, in candidate order.
UniqueSigs(sts, dups) ==
    LET Test(k) == dups[k] = 0
        ks == SelectSeq([k \in DOMAIN sts |-> k], Test)
    IN [i \in DOMAIN ks |-> bytes_to_string(sts[ks[i]].buf, sts[ks[i]].mask)]

\* The first module that contains the address, as a set of at most one index.
ModuleOf(a) ==
    { mi \in DOMAIN modules :
        /\ modules[mi].base <= a /\ modules[mi].base + modules[mi].size > a
        /\ \A mj \in DOMAIN modules :
              (modules[mj].base <= a /\ modules[mj].base + modules[mj].size > a) => mi <= mj }

\* (module.base + VirtualAddress, VirtualSize) of the code-flagged sections.
CodeRanges(base, img) ==
    LET Test(section) == section.code
        secs == SelectSeq(img.sections, Test)
    IN [k \in DOMAIN secs |-> << base + secs[k].va, secs[k].vsize >>]

\* The Sigstate of a candidate: its buffer after the batched read.
NewSigstate(a) ==
    [start_ip |-> a, buf |-> ReadInto(Zeros(SigLen), a, FALSE), pos |-> 0,
     mask |-> <<>>, instrs |-> 0]

\* A find_sigs call that ends before its loop, returning the error r after c
\* calls on the process.
SigFails(tg, r, c) ==
    /\ s_pc' = "idle"
    /\ s_target' = tg
    /\ s_ranges' = <<>>
    /\ s_states' = <<>>
    /\ s_rounds' = 0
    /\ s_dups' = <<>>
    /\ s_calls' = c
    /\ s_ret' = r
    /\ s_out' = <<>>

\* find_sigs with module_list called before the lookup in inverse_map.
FindSigsStartModuleFirst(tg, fail, fatal) ==
    /\ s_pc = "idle"
    /\ s_ret = "none"
    /\ d_pc = "idle"
    /\ IF fail THEN SigFails(tg, "ModuleListError", 1)
       ELSE IF ModuleOf(tg) = {} THEN SigFails(tg, "ModuleNotFound", 1)
       ELSE IF tg \notin DOMAIN dis_inverse_map THEN SigFails(tg, "InvalidArgument", 1)
       ELSE SigFails(tg, "ReadError", 2)
    /\ UNCHANGED << targetVars, pbarVars, scanVars, pmVars, disVars >>

\* find_sigs up to its loop: the lookup of the candidates, the module, its
\* image and code ranges, the batched read of the candidates' bytes.  fail:
\* module_list fails; fatal: the number of the read that fails, 0 for none.
FindSigsStart(tg, fail, fatal) ==
    /\ s_pc = "idle"
    /\ s_ret = "none"
    /\ d_pc = "idle"
    /\ IF tg \notin DOMAIN dis_inverse_map THEN SigFails(tg, "InvalidArgument", 0)
       ELSE IF fail THEN SigFails(tg, "ModuleListError", 1)
       ELSE IF ModuleOf(tg) = {} THEN SigFails(tg, "ModuleNotFound", 1)
       ELSE LET module == modules[CHOOSE mi \in ModuleOf(tg) : TRUE]
                image == IF Delivered(module.base) THEN pe[module.base] ELSE NoHeader
                addrs == dis_inverse_map[tg]
            IN IF fatal = 1 THEN SigFails(tg, "ReadError", 2)
               ELSE IF ~image.valid THEN SigFails(tg, "InvalidExeFile", 2)
               ELSE IF fatal = 2 THEN SigFails(tg, "ReadError", 3)
               ELSE /\ s_pc' = "rounds"
                    /\ s_target' = tg
                    /\ s_ranges' = CodeRanges(module.base, image)
                    /\ s_states' = [k \in DOMAIN addrs |-> NewSigstate(addrs[k])]
                    /\ s_rounds' = 0
                    /\ s_dups' = <<>>
                    /\ s_calls' = 3
                    /\ s_ret' = "none"
                    /\ s_out' = <<>>
    /\ UNCHANGED << targetVars, pbarVars, scanVars, pmVars, disVars >>

\* The caller drops the result of the latest find_sigs call.
FindSigsDrop ==
    /\ s_pc = "idle"
    /\ s_ret # "none"
    /\ s_target' = 0
    /\ s_ranges' = <<>>
    /\ s_states' = <<>>
    /\ s_rounds' = 0
    /\ s_dups' = <<>>
    /\ s_calls' = 0
    /\ s_ret' = "none"
    /\ s_out' = <<>>
    /\ UNCHANGED s_pc
    /\ UNCHANGED << targetVars, pbarVars, scanVars, pmVars, disVars >>

\* One round of the loop of find_sigs: every candidate adds an instruction,
\* then has_unique_matches scans the code ranges.  fatal: a read of the scan
\* fails; keep: what a read leaves in the bytes it does not deliver.
FindSigsRound(fatal, keep) ==
    /\ s_pc = "rounds"
    /\ LET res == [k \in DOMAIN s_states |-> add_single_instr(s_states[k])]
           sts == [k \in DOMAIN s_states |-> res[k].state]
           added == \E k \in DOMAIN res : res[k].added
           cs == ScanChunks(s_ranges)
           dups == DupMatches(sts, cs, Zeros(SigChunk + SigLen - 1), keep,
                              [k \in DOMAIN sts |-> 0])
           out == UniqueSigs(sts, dups)
       IN /\ s_states' = sts
          /\ s_rounds' = s_rounds + 1
          /\ IF ~added
             THEN /\ s_pc' = "idle"
                  /\ s_ret' = "Ok"
                  /\ s_out' = <<>>
                  /\ UNCHANGED << s_calls, s_dups >>
             ELSE IF fatal /\ cs # <<>>
             THEN /\ s_pc' = "idle"
                  /\ s_ret' = "ReadError"
                  /\ s_out' = <<>>
                  /\ s_calls' = s_calls + 1
                  /\ UNCHANGED s_dups
             ELSE IF out # <<>>
             THEN /\ s_pc' = "idle"
                  /\ s_ret' = "Ok"
                  /\ s_out' = out
                  /\ s_calls' = s_calls + Len(cs)
                  /\ s_dups' = dups
             ELSE /\ s_calls' = s_calls + Len(cs)
                  /\ s_dups' = dups
                  /\ UNCHANGED << s_pc, s_ret, s_out >>
    /\ UNCHANGED << s_target, s_ranges >>
    /\ UNCHANGED << targetVars, pbarVars, scanVars, pmVars, disVars >>

\* ------------------------------------------------------------------ PBar
\* Scaled width of the counter: the source's is an AtomicU64.
PbWidth == 4
\* !0, the value drop stores to stop the thread.
PbStop == 2 ^ PbWidth - 1

\* PBar::new: the counter starts at 0 and the thread is spawned.
PBarNew ==
    /\ pb_handle \in {"none", "joined"}
    /\ w_pc = "idle"
    /\ pb_handle' = "some"
    /\ pb_cnt' = 0
    /\ pb_thread' = "running"
    /\ pb_shown' = ShownNone
    /\ pb_exits' = 0
    /\ pb_finish' = FALSE
    /\ UNCHANGED << w_pc, w_query, w_sets, w_result >>
    /\ UNCHANGED << targetVars, scanVars, buildVars, disVars, sigVars >>

\* PBar::add (and inc, which is add(1)): cnt.fetch_add(add), wrapping.
PBarAdd(add) ==
    /\ pb_handle = "some"
    /\ pb_cnt' = (pb_cnt + add) % (2 ^ PbWidth)
    /\ UNCHANGED << w_pc, w_query, w_sets, w_result >>
    /\ UNCHANGED << targetVars, scanVars, buildVars, disVars, sigVars, pbarVars >>

\* PBar::set: cnt.store(value)
PBarSet(value) ==
    /\ pb_handle = "some"
    /\ pb_cnt' = value
    /\ UNCHANGED << w_pc, w_query, w_sets, w_result >>
    /\ UNCHANGED << targetVars, scanVars, buildVars, disVars, sigVars, pbarVars >>

\* Drop for PBar without the store of !0.
PBarDropNoStore(by_finish) ==
    /\ pb_handle = "some"
    /\ pb_handle' = "joining"
    /\ pb_finish' = by_finish
    /\ UNCHANGED << pb_cnt, pb_thread, pb_shown, pb_exits >>
    /\ UNCHANGED << w_pc, w_query, w_sets, w_result >>
    /\ UNCHANGED << targetVars, scanVars, buildVars, disVars, sigVars >>

\* Drop for PBar up to the join, at the end of the owner's scope or of
\* finish(self), whose body is empty: cnt.store(!0).
PBarDrop(by_finish) ==
    /\ pb_handle = "some"
    /\ pb_cnt' = PbStop
    /\ pb_handle' = "joining"
    /\ pb_finish' = by_finish
    /\ UNCHANGED << pb_thread, pb_shown, pb_exits >>
    /\ UNCHANGED << w_pc, w_query, w_sets, w_result >>
    /\ UNCHANGED << targetVars, scanVars, buildVars, disVars, sigVars >>

\* handle.take().unwrap().join() returns: the thread has ended.
PBarJoin ==
    /\ pb_handle = "joining"
    /\ pb_thread = "exited"
    /\ pb_handle' = "joined"
    /\ UNCHANGED << pb_thread, pb_shown, pb_exits, pb_finish >>
    /\ UNCHANGED << targetVars, scanVars, pmVars, disVars, sigVars >>

\* One turn of the thread's loop: sleep, load the counter, then finish the
\* bar and break on !0, or show the value.
PBarSample ==
    /\ pb_thread = "running"
    /\ IF pb_cnt = PbStop
       THEN /\ pb_shown' = ShownFinish
            /\ pb_thread' = "exited"
            /\ pb_exits' = pb_exits + 1
       ELSE /\ pb_shown' = pb_cnt
            /\ UNCHANGED << pb_thread, pb_exits >>
    /\ UNCHANGED << pb_handle, pb_finish >>
    /\ UNCHANGED << targetVars, scanVars, pmVars, disVars, sigVars >>

Next ==
    \/ Reset
    \/ \E p \in Patterns : ScanStart(p)
    \/ \E w \in Workers, r \in DOMAIN mem_map, fatal \in BOOLEAN, keep \in BOOLEAN :
          SweepStride(w, r, fatal, keep)
    \/ SweepFinish
    \/ \E w \in Workers, c \in pending, fatal \in BOOLEAN, keep \in BOOLEAN :
          RefineChunk(w, c, fatal, keep)
    \/ RefineFinish

\* The scanner under scan_for and reset, with every outcome of the memory
\* layer.
Spec == Init /\ [][Next]_vars

\* The scanner driven by the CLI's view commands (scan input, reset, add,
\* remove) on a raw view whose reads all succeed.
InitCli ==
    /\ Init
    /\ readable = Pages
    /\ ranges = << <<0, Stride + 1>> >>

NextCli ==
    \/ Reset
    \/ \E p \in Patterns : ScanStart(p)
    \/ \E w \in Workers, r \in DOMAIN mem_map : SweepStride(w, r, FALSE, TRUE)
    \/ SweepFinish
    \/ \E w \in Workers, c \in pending : RefineChunk(w, c, FALSE, TRUE)
    \/ RefineFinish
    \/ \E a \in Addrs : Push(a)
    \/ \E idx \in 0..Len(matches) : Remove(idx)

SpecCli == InitCli /\ [][NextCli]_vars

\* The pointer map under create_map and reset, with every outcome of the
\* memory layer.
InitPM ==
    /\ TargetInit(PtrBytes)
    /\ ranges \in PtrLayouts
    /\ NoModules
    /\ ScannerInit
    /\ PointerMapInit
    /\ PBarInit
    /\ DisasmInit
    /\ SigmakerInit

NextPM ==
    \/ PmReset
    \/ \E n \in PtrSizes : CreateStart(n)
    \/ \E w \in Workers, s \in pm_todo, fatal \in BOOLEAN, keep \in BOOLEAN :
          BuildStride(w, s, fatal, keep)
    \/ CreateFinish

SpecPM == InitPM /\ [][NextPM]_vars

\* ------------------------------------------------ the walker's environment
\* Deepest max_depth handed to the walker.
MaxDepth == 3
\* The addresses of the small pointer maps.
WAddrs == 0..2
\* Sequences of at most two addresses in ascending order: the entry points
\* (globals() and pointers() are sorted) and the search targets.
AscLists == { AscSeq(S) : S \in { T \in SUBSET WAddrs : Cardinality(T) <= 2 } }

\* The map of scenario S3: 0x10100 -> 0x20008, 0x20800 -> 0x10100.
S3Map == (65792 :> 131080) @@ (133120 :> 65792)
\* The call of scenario S4: ((0x100, 0x100), 3, [0x20008], [0x20800]).
S4Call ==
    [range |-> <<256, 256>>, max_depth |-> 3,
     search_for |-> <<131080>>, entry_points |-> <<133120>>]

\* The pointer maps the walker is run on: every map of at most two pointers
\* over WAddrs, and the map of scenario S3.
WalkMaps ==
    { S3Map } \cup
    UNION { [K -> WAddrs] : K \in { T \in SUBSET WAddrs : Cardinality(T) <= 2 } }

Ranges == { <<l, u>> : l \in {0, 1}, u \in {0, 1} }

\* The pointer map as create_map leaves it for the map m.
InitWalk ==
    /\ readable = {}
    /\ mem = [a \in Addrs |-> 0]
    /\ ranges = << <<0, 2 * Stride>> >>
    /\ NoModules
    /\ ScannerInit
    /\ DisasmInit
    /\ SigmakerInit
    /\ map \in WalkMaps
    /\ inverse_map = InversePush(<<>>, AscSeq(DOMAIN map), map)
    /\ pointers = AscSeq(DOMAIN map)
    /\ pm_pc = "idle"
    /\ size_addr = 0
    /\ pm_mem_map = <<>>
    /\ pm_buf = [w \in Workers |-> <<>>]
    /\ pm_todo = {}
    /\ pm_found = <<>>
    /\ pm_last = "create_map"
    /\ w_pc = "idle"
    /\ w_query = NoQuery
    /\ w_sets = <<>>
    /\ pb_cnt = 0
    /\ PBarInit
    /\ w_result = <<>>

NextWalk ==
    \/ /\ map = S3Map
       /\ FindMatchesAddrs(S4Call)
    \/ /\ map # S3Map
       /\ \E r \in Ranges, d \in 0..MaxDepth, sf \in AscLists, ep \in AscLists :
             FindMatchesAddrs([range |-> r, max_depth |-> d,
                               search_for |-> sf, entry_points |-> ep])
    \/ /\ map # S3Map
       /\ \E r \in Ranges, d \in 0..MaxDepth, sf \in AscLists : FindMatches(r, d, sf)
    \/ \E i \in DOMAIN w_sets : PbSet(i)
    \/ FindFinish
    \/ FindDrop

SpecWalk == InitWalk /\ [][NextWalk]_vars

\* ----------------------------------------------- the disassembler's targets
\* The addresses that hold code in the targets below.
CodeAddrs == 1..4

\* A section header.
Section(va, vsize, code) == [va |-> va, vsize |-> vsize, code |-> code]
\* A parseable executable header with the section table secs.
Header(secs) == [valid |-> TRUE, sections |-> secs]

\* The module lists collect_globals is run on, each with the headers at the
\* module bases: one module with one code section of two chunks; one module
\* with a code section and a data section; a module with one code section
\* followed by a module with one data section; a module that is no
\* executable image.
DisLayouts ==
    { [modules |-> << [base |-> 0, size |-> 5] >>,
       pe |-> (0 :> Header(<< Section(1, 2 * DChunk, TRUE) >>))],
      [modules |-> << [base |-> 0, size |-> 5] >>,
       pe |-> (0 :> Header(<< Section(1, 2, TRUE), Section(3, 2, FALSE) >>))],
      [modules |-> << [base |-> 0, size |-> 2], [base |-> 2, size |-> 3] >>,
       pe |-> (0 :> Header(<< Section(1, 1, TRUE) >>)) @@
              (2 :> Header(<< Section(1, 2, FALSE) >>))],
      [modules |-> << [base |-> 0, size |-> 5] >>,
       pe |-> (0 :> NoHeader)] }

\* The disassembler under collect_globals and reset, with every outcome of
\* module_list and of the memory layer.
InitDis ==
    /\ readable \in SUBSET Pages
    /\ mem \in { m \in [Addrs -> CodeBytes] :
                    \A a \in Addrs : (PageOf(a) \notin readable \/ a \notin CodeAddrs) => m[a] = 0 }
    /\ ranges = <<>>
    /\ \E L \in DisLayouts :
          /\ modules = L.modules
          /\ pe = L.pe
    /\ ScannerInit
    /\ PointerMapInit
    /\ PBarInit
    /\ DisasmInit
    /\ SigmakerInit

NextDis ==
    \/ DisReset
    \/ \E fail \in BOOLEAN : CollectStart(fail)
    \/ \E w \in Workers, mi \in DOMAIN d_mod, fatal \in BOOLEAN, keep \in BOOLEAN :
          ModuleTask(w, mi, fatal, keep)
    \/ \E w \in Workers, mi \in DOMAIN d_mod : SectionPull(w, mi)
    \/ \E w \in Workers, fatal \in BOOLEAN, keep \in BOOLEAN : ChunkStep(w, fatal, keep)
    \/ \E mi \in DOMAIN d_mod : ModuleClose(mi)
    \/ CollectFinish

SpecDis == InitDis /\ [][NextDis]_vars

\* The byte of the memory image at a; outside the address space it is 0.
ImageByte(a) == IF a \in Addrs THEN mem[a] ELSE 0
\* The instruction the memory image holds at ip.
ImageInstr(ip) == Decode(<< ImageByte(ip), ImageByte(ip + 1) >>, 1, ip)
\* ip lies inside a code-flagged section of a loaded module, before the
\* section's end.
InCodeSection(ip) ==
    \E mi \in DOMAIN modules :
        LET base == modules[mi].base
        IN /\ pe[base].valid
           /\ \E k \in DOMAIN pe[base].sections :
                 LET section == pe[base].sections[k]
                 IN /\ section.code
                    /\ base + section.va <= ip
                    /\ ip < base + section.va + section.vsize

\* ------------------------------------------------- the sigmaker's targets
RECURSIVE SweepEdges(_, _)
\* The edges of the instructions the memory image holds from ip to the end
\* of a section, decoded one after the other.
SweepEdges(ip, end) ==
    IF ip >= end THEN <<>>
    ELSE CHOOSE es \in
            { (IF ins.is_ip_rel_memory_operand /\ ins.near_branch_target = 0
               THEN << << ip, ins.ip_rel_memory_address >> >> ELSE <<>>)
              \o SweepEdges(ip + ins.len, end) : ins \in {ImageInstr(ip)} } : TRUE

\* The code ranges of the target's modules, module by module.
ImageRanges ==
    Concat([mi \in DOMAIN modules |->
       IF pe[modules[mi].base].valid
       THEN CodeRanges(modules[mi].base, pe[modules[mi].base]) ELSE <<>>])

RECURSIVE RangeEdges(_)
\* The edges of the instructions of the code ranges rgs, range by range.
RangeEdges(rgs) ==
    IF rgs = <<>> THEN <<>>
    ELSE SweepEdges(Head(rgs)[1], Head(rgs)[1] + Head(rgs)[2]) \o RangeEdges(Tail(rgs))

\* The edges of the code sections of the target's modules.
ImageEdges == RangeEdges(ImageRanges)

\* The addresses handed to find_sigs as target_global.
TargetGlobals == 0..7

\* Byte values of the images find_sigs is run on: those of the decoder's
\* short instructions and a byte that is a one-byte instruction.
SigBytes == CodeBytes \cup {171}

\* The targets find_sigs is run on: those of the disassembler and a module
\* with two adjacent code sections, the last instruction of the first
\* reaching into the second.
SigLayouts ==
    DisLayouts \cup
    { [modules |-> << [base |-> 0, size |-> 5] >>,
       pe |-> (0 :> Header(<< Section(1, 1, TRUE), Section(2, 3, TRUE) >>))] }

\* The disassembler index as a collect_globals call whose reads delivered
\* every readable byte leaves it, and no find_sigs call made yet.
InitSig ==
    /\ readable \in SUBSET Pages
    /\ mem \in { m \in [Addrs -> SigBytes] :
                    \A a \in Addrs : (PageOf(a) \notin readable \/ a \notin CodeAddrs) => m[a] = 0 }
    /\ ranges = <<>>
    /\ \E L \in SigLayouts :
          /\ modules = L.modules
          /\ pe = L.pe
    /\ ScannerInit
    /\ PointerMapInit
    /\ PBarInit
    /\ dis_map = MapExtend(<<>>, ImageEdges)
    /\ dis_inverse_map = InversePush(<<>>, AscSeq(DOMAIN dis_map), dis_map)
    /\ globals = AscSeq(DOMAIN dis_inverse_map)
    /\ d_pc = "idle"
    /\ d_last = "collect_globals"
    /\ d_modules = modules
    /\ d_image = [w \in Workers |-> NoHeader]
    /\ d_bytes = [w \in Workers |-> <<>>]
    /\ d_mod = <<>>
    /\ d_stack = [w \in Workers |-> <<>>]
    /\ d_task = [w \in Workers |-> NoTask]
    /\ d_out = <<>>
    /\ SigmakerInit

NextSig ==
    \/ \E tg \in TargetGlobals, fail \in BOOLEAN, fatal \in 0..2 : FindSigsStart(tg, fail, fatal)
    \/ \E fatal \in BOOLEAN, keep \in BOOLEAN : FindSigsRound(fatal, keep)
    \/ FindSigsDrop

SpecSig == InitSig /\ [][NextSig]_vars

\* find_sigs runs on the caller's thread: a call inside its loop goes on
\* with the next round.
SpecSigLive ==
    InitSig /\ [][NextSig]_vars
        /\ WF_vars(\E fatal \in BOOLEAN, keep \in BOOLEAN : FindSigsRound(fatal, keep))

\* ------------------------------------------------- the candidates' buffers

\* Byte values of a candidate's buffer: the decoder's opcodes, and bytes that
\* are one-byte instructions and need every kind of hexadecimal digit.
MaskBytes == {0, OpMem, OpBranch, OpLong, OpBase, OpAbs, OpBad, 10, 171, 255}

\* A Sigstate on any buffer of the signature length, nothing decoded yet.
InitMask ==
    /\ readable = {}
    /\ mem = [a \in Addrs |-> 0]
    /\ ranges = <<>>
    /\ NoModules
    /\ ScannerInit
    /\ PointerMapInit
    /\ PBarInit
    /\ DisasmInit
    /\ s_pc = "mask"
    /\ s_target = 0
    /\ s_ranges = <<>>
    /\ \E b \in [1..SigLen -> MaskBytes] :
          s_states = << [start_ip |-> 0, buf |-> b, pos |-> 0, mask |-> <<>>, instrs |-> 0] >>
    /\ s_rounds = 0
    /\ s_dups = <<>>
    /\ s_calls = 0
    /\ s_ret = "none"
    /\ s_out = <<>>

\* add_single_instr on the candidate, then its rendering by bytes_to_string.
MaskInstr ==
    /\ s_pc = "mask"
    /\ LET res == add_single_instr(s_states[1])
       IN /\ s_states' = << res.state >>
          /\ s_rounds' = s_rounds + (IF res.added THEN 1 ELSE 0)
          /\ s_out' = << bytes_to_string(res.state.buf, res.state.mask) >>
    /\ UNCHANGED << s_pc, s_target, s_ranges, s_dups, s_calls, s_ret >>
    /\ UNCHANGED << targetVars, pbarVars, scanVars, pmVars, disVars >>

NextMask == MaskInstr

SpecMask == InitMask /\ [][NextMask]_vars

\* ------------------------------------------------- the progress reporter

\* A PBar made, fed by producers and sampled by its thread, then finished or
\* dropped, over and over.
NextPBar ==
    \/ PBarNew
    \/ \E add \in 1..2 : PBarAdd(add)
    \/ \E value \in 0..PbStop : PBarSet(value)
    \/ \E by_finish \in BOOLEAN : PBarDrop(by_finish)
    \/ PBarJoin
    \/ PBarSample

\* No PBar yet, on a target without memory.
InitPBar ==
    /\ readable = {}
    /\ mem = [a \in Addrs |-> 0]
    /\ ranges = <<>>
    /\ NoModules
    /\ ScannerInit
    /\ PointerMapInit
    /\ PBarInit
    /\ DisasmInit
    /\ SigmakerInit

\* The thread is scheduled, and so is the thread that waits in join.
SpecPBar == InitPBar /\ [][NextPBar]_vars /\ WF_vars(PBarSample) /\ WF_vars(PBarJoin)

\* ---------------------------------------------------- ValueScanner claims

\* C1: after the first scan_for(p) on a fresh or reset scanner, with p not
\* empty, the |p| bytes of the target at every address of matches equal p,
\* whatever the stride reads delivered.
C1_SweepSound ==
    (pc = "idle" /\ last_op = "sweep" /\ last_call.data # <<>>)
        => \A k \in DOMAIN matches : SnapshotHolds(matches[k], last_call.data)

\* C2: whenever scan_for has returned and no caller has edited matches,
\* matches is sorted strictly ascending.
C2_SortedOnReturn ==
    (pc = "idle" /\ ret = "Ok") => SortedAsc(matches)

\* C3: between operations (construction, reset, scan_for, push, remove),
\* scanned = false implies that matches and mem_map are empty.
C3_UnscannedEmpty ==
    (pc = "idle" /\ ~scanned) => (matches = <<>> /\ mem_map = <<>>)

\* C4: the matches a refinement leaves are a subsequence of the matches it
\* found: nothing added, the order of the retained addresses kept.
C4_RefineSubsequence ==
    [][(pc = "refine" /\ pc' = "idle") => IsSubseq(matches', old_matches)]_vars

C4_Witness ==
    /\ pc = "idle"
    /\ last_op = "refine"
    /\ last_call.had > ChunkSize
    /\ matches # <<>>
    /\ Len(matches) < last_call.had

\* C5: a refinement with the non-empty pattern of the scan_for just before
\* it, all reads of both calls delivering every byte, leaves matches as the
\* first call left them.
C5_Idempotent ==
    [][(/\ pc = "refine" /\ pc' = "idle"
        /\ last_call.valid /\ last_call.ok /\ last_call.data = data
        /\ call_ok /\ data # <<>>)
          => matches' = old_matches]_vars

C5_Witness ==
    /\ pc = "idle"
    /\ last_op = "refine"
    /\ last_call.again
    /\ last_call.data # <<>>
    /\ Len(matches) > ChunkSize

\* C6: the first scan_for after construction or reset enumerates the ranges
\* into mem_map, reads every stride of every range and sets scanned; a
\* scan_for on a scanned scanner only filters matches, enumerates nothing and
\* leaves scanned and mem_map alone; reset gives the fresh state.
C6_Protocol ==
    [][/\ (pc = "idle" /\ pc' # "idle" /\ ~scanned)
            => (pc' = "sweep" /\ mem_map' = ranges /\ n_enums' = 1)
       /\ (pc = "sweep" /\ pc' = "idle")
            => (/\ scanned' /\ mem_map' = mem_map
                /\ \A r \in DOMAIN mem_map : cursor[r] = NumStrides(mem_map[r][2]))
       /\ (pc = "idle" /\ pc' # "idle" /\ scanned)
            => (pc' = "refine" /\ n_enums' = 0 /\ mem_map' = mem_map /\ scanned')
       /\ (pc = "refine")
            => (/\ n_enums' = 0 /\ mem_map' = mem_map /\ scanned'
                /\ pc' = "idle" => IsSubseq(matches', old_matches))
       /\ (last_op' = "reset")
            => (~scanned' /\ matches' = <<>> /\ mem_map' = <<>>)
      ]_vars

C6_Witness ==
    /\ pc = "idle"
    /\ last_op = "refine"
    /\ last_call.enums = 0
    /\ scanned
    /\ mem_map = ranges
    /\ matches # <<>>

\* C7: a refinement with the empty pattern returns Ok, issues no read and
\* leaves matches empty.
C7_EmptyRefine ==
    (pc = "idle" /\ last_op = "refine" /\ last_call.data = <<>>)
        => (matches = <<>> /\ ret = "Ok" /\ last_call.reads = 0)

C7_Witness ==
    /\ pc = "idle"
    /\ last_op = "refine"
    /\ last_call.data = <<>>
    /\ last_call.had > 0

\* C8: an initial sweep to which the memory layer reported a fatal error
\* does not return Ok.
C8_FatalSurfaces ==
    (pc = "idle" /\ last_op = "sweep" /\ last_call.fatal) => ret # "Ok"

\* ------------------------------------------------------ PointerMap claims

\* C9: after create_map returns Ok, for every (k, v) of map the size_addr
\* bytes of the target at k, read little-endian and zero-extended, equal v,
\* and v lies inside a range of the memory map the call enumerated.
C9_EdgeSound ==
    (pm_pc = "idle" /\ pm_last = "create_map")
        => \A k \in DOMAIN map :
              /\ \A i \in 0..(size_addr - 1) : (k + i) \in Addrs
              /\ LeValue(TargetBytes(k, size_addr)) = map[k]
              /\ \E r \in DOMAIN pm_mem_map :
                    /\ map[k] >= pm_mem_map[r][1]
                    /\ map[k] < pm_mem_map[r][1] + pm_mem_map[r][2]

\* C10: between calls of reset and create_map, map and inverse_map hold the
\* same edges, no list of inverse_map is empty, every list is ascending
\* without duplicates, pointers is the ascending sequence of the keys of
\* map, and after reset all three are empty.
C10_Structure ==
    (pm_pc = "idle") =>
        /\ \A k \in DOMAIN map :
              /\ map[k] \in DOMAIN inverse_map
              /\ \E i \in DOMAIN inverse_map[map[k]] : inverse_map[map[k]][i] = k
        /\ \A v \in DOMAIN inverse_map :
              /\ inverse_map[v] # <<>>
              /\ SortedAsc(inverse_map[v])
              /\ \A i \in DOMAIN inverse_map[v] :
                    /\ inverse_map[v][i] \in DOMAIN map
                    /\ map[inverse_map[v][i]] = v
        /\ SortedAsc(pointers)
        /\ { pointers[i] : i \in DOMAIN pointers } = DOMAIN map
        /\ (pm_last = "reset") => (map = <<>> /\ inverse_map = <<>> /\ pointers = <<>>)

C10_Witness ==
    /\ pm_pc = "idle"
    /\ pm_last = "create_map"
    /\ Cardinality(DOMAIN inverse_map) >= 2
    /\ \E v \in DOMAIN inverse_map : Len(inverse_map[v]) >= 2
    /\ Len(pointers) >= 3

\* ---------------------------------------------------------- walker claims

\* C11: every element (target, chain) find_matches_addrs returns has at
\* least one pair, its target is a search target, its first address is an
\* entry point, the pointer stored at a_i + o_i is a_(i+1), and the last
\* pair lands on the target.
C11_ChainValid ==
    (w_pc = "done") =>
        \A j \in DOMAIN w_result :
            LET target == w_result[j][1]
                ch == w_result[j][2]
            IN /\ Len(ch) >= 1
               /\ \E t \in DOMAIN w_query.search_for : w_query.search_for[t] = target
               /\ \E e \in DOMAIN w_query.entry_points : w_query.entry_points[e] = ch[1][1]
               /\ \A i \in 1..(Len(ch) - 1) :
                     /\ (ch[i][1] + ch[i][2]) \in DOMAIN map
                     /\ map[ch[i][1] + ch[i][2]] = ch[i + 1][1]
               /\ ch[Len(ch)][1] + ch[Len(ch)][2] = target

C11_Witness ==
    /\ w_pc = "done"
    /\ \E j \in DOMAIN w_result :
          /\ Len(w_result[j][2]) = 3
          /\ \E i \in 1..3 : w_result[j][2][i][2] # 0
          /\ w_result[j][2][1][1] # w_result[j][2][3][1]

\* C12: every offset of every returned chain lies in [-urange, lrange].
C12_OffsetBounds ==
    (w_pc = "done") =>
        \A j \in DOMAIN w_result : \A i \in DOMAIN w_result[j][2] :
            /\ -(w_query.range[2]) <= w_result[j][2][i][2]
            /\ w_result[j][2][i][2] <= w_query.range[1]

\* C13: every returned chain has at most max_depth pairs; max_depth = 0
\* yields no chain.
C13_DepthBound ==
    (w_pc = "done") =>
        \A j \in DOMAIN w_result : Len(w_result[j][2]) <= w_query.max_depth

\* C14 as stated: when two entry points of the window are equidistant from
\* the walked address and none is closer, the chain's entry is the higher.
C14_TieHigher ==
    (w_pc = "done") =>
        \A j \in DOMAIN w_result :
            LET e == w_result[j][2][1][1]
                addr == e + w_result[j][2][1][2]
                eps == { w_query.entry_points[i] : i \in DOMAIN w_query.entry_points }
            IN \A d \in 1..addr :
                  (/\ d <= w_query.range[1] /\ d <= w_query.range[2]
                   /\ (addr - d) \in eps /\ (addr + d) \in eps
                   /\ \A x \in eps : Abs(addr - x) >= d)
                      => e = addr + d

\* C14, amended: in that case the chain's entry is the lower of the two (the
\* one at the positive offset).
C14_TieLower ==
    (w_pc = "done") =>
        \A j \in DOMAIN w_result :
            LET e == w_result[j][2][1][1]
                addr == e + w_result[j][2][1][2]
                eps == { w_query.entry_points[i] : i \in DOMAIN w_query.entry_points }
            IN \A d \in 1..addr :
                  (/\ d <= w_query.range[1] /\ d <= w_query.range[2]
                   /\ (addr - d) \in eps /\ (addr + d) \in eps
                   /\ \A x \in eps : Abs(addr - x) >= d)
                      => e = addr - d

C14_Witness ==
    /\ w_pc = "done"
    /\ w_query.range = <<1, 1>>
    /\ w_query.entry_points = <<0, 2>>
    /\ \E j \in DOMAIN w_result :
          /\ Len(w_result[j][2]) >= 2
          /\ w_result[j][2][1] = <<0, 1>>

\* C15: the walk ends on maps with cycles and nothing is deduplicated: when
\* A points to B and B points to A (A = B included), A is a search target
\* and an entry point, the chain that goes round the cycle is returned for
\* every odd length up to max_depth.
C15_CycleEnumerated ==
    (w_pc = "done") =>
        \A A \in DOMAIN map : \A L \in 1..w_query.max_depth :
            (/\ map[A] \in DOMAIN map /\ map[map[A]] = A
             /\ \E t \in DOMAIN w_query.search_for : w_query.search_for[t] = A
             /\ \E e \in DOMAIN w_query.entry_points : w_query.entry_points[e] = A
             /\ L % 2 = 1)
                => \E j \in DOMAIN w_result :
                      w_result[j] =
                          << A, [i \in 1..L |-> << IF i % 2 = 1 THEN A ELSE map[A], 0 >>] >>

C15_Witness ==
    /\ w_pc = "done"
    /\ w_query.max_depth >= 3
    /\ \E A \in DOMAIN map :
          /\ map[A] # A /\ map[A] \in DOMAIN map /\ map[map[A]] = A
          /\ \E j \in DOMAIN w_result :
                w_result[j] = << A, << <<A, 0>>, <<map[A], 0>>, <<A, 0>> >> >>

\* C16 as stated: on the map of S3 the call of S4 returns one chain, for
\* 0x20008: [(0x20800, 0), (0x10100, 8)].
C16_ScenarioStated ==
    (w_pc = "done" /\ map = S3Map /\ w_query = S4Call)
        => w_result = << << 131080, << <<133120, 0>>, <<65792, 8>> >> >> >>

\* C16, amended: the one chain returned is
\* [(0x20800, 0), (0x10100, 0), (0x20008, 0)].
C16_Scenario ==
    (w_pc = "done" /\ map = S3Map /\ w_query = S4Call)
        => w_result = << << 131080, << <<133120, 0>>, <<65792, 0>>, <<131080, 0>> >> >> >>

C16_Witness ==
    /\ w_pc = "done"
    /\ map = S3Map
    /\ w_query = S4Call
    /\ Len(w_result) = 1

\* C17: during one find_matches_addrs call the values stored into the
\* progress counter never decrease.
C17_ProgressMonotone ==
    [][(w_pc = "walk" /\ w_pc' = "walk") => pb_cnt' >= pb_cnt]_vars

\* ---------------------------------------------------------- Disasm claims
\* C18: after collect_globals returns Ok, every edge (ip, v) of map comes
\* from an instruction that starts inside a code-flagged section of a loaded
\* module, before the section's end, has an IP-relative memory operand with
\* effective address v, and has near-branch target zero.
C18_EdgeFilter ==
    (d_pc = "idle" /\ d_last = "collect_globals") =>
        \A ip \in DOMAIN dis_map :
            /\ InCodeSection(ip)
            /\ ImageInstr(ip).is_ip_rel_memory_operand
            /\ ImageInstr(ip).ip_rel_memory_address = dis_map[ip]
            /\ ImageInstr(ip).near_branch_target = 0

\* C19: after any sequence of reset and collect_globals calls, map and
\* inverse_map hold the same edges (ip is in inverse_map[v] exactly when
\* map[ip] = v, once), globals is the ascending sequence of the keys of
\* inverse_map, the three collections are empty from the start of a
\* collect_globals call until its walk has ended, and they are empty when the
\* call returned the error of module_list.
C19_Structure ==
    /\ \A v \in DOMAIN dis_inverse_map :
          /\ dis_inverse_map[v] # <<>>
          /\ \A i \in DOMAIN dis_inverse_map[v] :
                /\ dis_inverse_map[v][i] \in DOMAIN dis_map
                /\ dis_map[dis_inverse_map[v][i]] = v
          /\ \A i, j \in DOMAIN dis_inverse_map[v] :
                i # j => dis_inverse_map[v][i] # dis_inverse_map[v][j]
    /\ \A ip \in DOMAIN dis_map :
          /\ dis_map[ip] \in DOMAIN dis_inverse_map
          /\ \E i \in DOMAIN dis_inverse_map[dis_map[ip]] : dis_inverse_map[dis_map[ip]][i] = ip
    /\ globals = AscSeq(DOMAIN dis_inverse_map)
    /\ SortedAsc(globals)
    /\ (d_pc = "collect" \/ d_last = "collect_err") =>
          /\ dis_map = <<>>
          /\ dis_inverse_map = <<>>
          /\ globals = <<>>

\* A collect_globals call has returned Ok with two instructions that
\* reference the same global.
C19_Witness ==
    /\ d_pc = "idle"
    /\ d_last = "collect_globals"
    /\ \E v \in DOMAIN dis_inverse_map : Len(dis_inverse_map[v]) >= 2

\* -------------------------------------------------------- Sigmaker claims

\* C20: when find_sigs has returned, if target_global is not a key of the
\* disassembler's inverse_map the result is the InvalidArgument error and
\* the call made no call on the process or its memory; otherwise, if
\* module_list returned its list and no module of it contains target_global,
\* the result is the ModuleNotFound error; in both cases no signature is
\* returned.
C20_Preconditions ==
    (s_pc = "idle" /\ s_ret # "none") =>
        /\ s_target \notin DOMAIN dis_inverse_map =>
              /\ s_ret = "InvalidArgument"
              /\ s_calls = 0
              /\ s_out = <<>>
        /\ (/\ s_target \in DOMAIN dis_inverse_map
            /\ s_ret # "ModuleListError"
            /\ ModuleOf(s_target) = {}) =>
              /\ s_ret = "ModuleNotFound"
              /\ s_out = <<>>

\* find_sigs has returned ModuleNotFound for a global that instructions of a
\* loaded module reference and that lies past the end of every module.
C20_Witness ==
    /\ s_pc = "idle"
    /\ s_ret = "ModuleNotFound"
    /\ s_target \in DOMAIN dis_inverse_map
    /\ modules # <<>>
    /\ ModuleOf(s_target) = {}

\* The code ranges of the module that contains target_global, from the
\* header the target holds.
TargetRanges(tg) ==
    LET base == modules[CHOOSE mi \in ModuleOf(tg) : TRUE].base
    IN IF ModuleOf(tg) # {} /\ pe[base].valid THEN CodeRanges(base, pe[base]) ELSE <<>>
\* The addresses inside the code ranges rgs.
RangeAddrs(rgs) ==
    UNION { rgs[r][1]..(rgs[r][1] + rgs[r][2] - 1) : r \in DOMAIN rgs }
\* The target's bytes at address a match the candidate's bytes under its
\* mask: every byte the mask does not wildcard is readable and equal.
ImageMatch(st, a) ==
    \A i \in DOMAIN st.mask :
        \/ st.mask[i] = 0
        \/ /\ Delivered(a + i - 1)
           /\ And(mem[a + i - 1], st.mask[i]) = And(st.buf[i], st.mask[i])

\* C21: every signature find_sigs returns is the string of a candidate whose
\* bytes, under its mask, match the target at no address of the module's
\* code ranges other than the candidate's start_ip.
C21_Unique ==
    (s_pc = "idle" /\ s_ret = "Ok") =>
        \A n \in DOMAIN s_out :
            \E k \in DOMAIN s_states :
                /\ bytes_to_string(s_states[k].buf, s_states[k].mask) = s_out[n]
                /\ \A a \in RangeAddrs(TargetRanges(s_target)) :
                      a # s_states[k].start_ip => ~ImageMatch(s_states[k], a)

\* find_sigs has returned a signature that became unique in the second
\* round: after the first round its prefix matched at another address of
\* the code ranges.
C21_Witness ==
    /\ s_pc = "idle"
    /\ s_ret = "Ok"
    /\ s_out # <<>>
    /\ s_rounds >= 2
    /\ \E k \in DOMAIN s_states, a \in RangeAddrs(TargetRanges(s_target)) :
          /\ a # s_states[k].start_ip
          /\ Len(s_states[k].mask) > 2
          /\ ImageMatch([s_states[k] EXCEPT !.mask = SubSeq(@, 1, 2)], a)

\* The candidates of the latest scan that had no duplicate match, in
\* candidate order.
Winners == AscSeq({ k \in DOMAIN s_dups : s_dups[k] = 0 })

\* C22: when find_sigs returns Ok, the list holds exactly one signature for
\* each candidate that had no duplicate match in the round that ended the
\* loop, in candidate order; rounds before it contribute nothing, and the list
\* is empty when the loop ended because no candidate added an instruction.
C22_ResultSet ==
    (s_pc = "idle" /\ s_ret = "Ok") =>
        \/ /\ ~\E k \in DOMAIN s_states : s_states[k].instrs = s_rounds
           /\ s_out = <<>>
        \/ /\ \E k \in DOMAIN s_states : s_states[k].instrs = s_rounds
           /\ Winners # <<>>
           /\ Len(s_out) = Len(Winners)
           /\ \A i \in DOMAIN s_out :
                 s_out[i] = bytes_to_string(s_states[Winners[i]].buf,
                                            s_states[Winners[i]].mask)

\* A call that returned two different signatures after a round without a
\* unique candidate.
C22_Witness ==
    /\ s_pc = "idle" /\ s_ret = "Ok"
    /\ s_rounds >= 2
    /\ Len(s_out) = 2
    /\ s_out[1] # s_out[2]

RECURSIVE ByteRoles(_, _, _, _)
\* What each byte of the first n accepted instructions of buf is (what the
\* decoder returns INVALID for is passed over), by the decoder's
\* constant offsets: a displacement byte, the first or a later byte of a
\* branch immediate of more than one byte, a one-byte immediate, or another
\* byte of the instruction.
ByteRoles(buf, i, ip, n) ==
    IF n = 0 \/ i > Len(buf) THEN <<>>
    ELSE IF Decode(buf, i, ip).invalid
    THEN ByteRoles(buf, i + Decode(buf, i, ip).len, ip + Decode(buf, i, ip).len, n)
    ELSE LET ins == Decode(buf, i, ip)
             co == ConstantOffsets(ins)
             Role(j) ==
                 IF co.has_displacement /\ j >= co.displacement_offset
                    /\ j < co.displacement_offset + co.displacement_size
                 THEN "disp"
                 ELSE IF co.has_immediate /\ j >= co.immediate_offset
                         /\ j < co.immediate_offset + co.immediate_size
                 THEN IF co.immediate_size = 1 THEN "imm_short"
                      ELSE IF j = co.immediate_offset THEN "imm_first" ELSE "imm_rest"
                 ELSE "op"
         IN [j \in 1..ins.len |-> Role(j - 1)]
                \o ByteRoles(buf, i + ins.len, ip + ins.len, n - 1)

\* The roles of the bytes a candidate's mask covers.
MaskRoles(st) == ByteRoles(st.buf, 1, st.start_ip, st.instrs)

\* C23 as stated: the first byte of a branch immediate of more than one byte
\* keeps the mask 0xFF, the later bytes get 0x00, and every 0x00 lies in a
\* displacement or on a later byte of such an immediate.
C23_FirstByteKept ==
    \A k \in DOMAIN s_states :
        LET st == s_states[k]
            roles == MaskRoles(st)
        IN /\ Len(roles) = Len(st.mask)
           /\ \A i \in DOMAIN st.mask :
                 /\ roles[i] = "imm_first" => st.mask[i] = 255
                 /\ roles[i] = "imm_rest" => st.mask[i] = 0
                 /\ st.mask[i] = 0 => roles[i] \in {"disp", "imm_rest"}

\* C23, amended: every byte of a branch immediate of more than one byte gets
\* the mask 0x00, the first one included, and every 0x00 lies in a
\* displacement or in such an immediate.
C23_BranchMasked ==
    \A k \in DOMAIN s_states :
        LET st == s_states[k]
            roles == MaskRoles(st)
        IN /\ Len(roles) = Len(st.mask)
           /\ \A i \in DOMAIN st.mask :
                 /\ roles[i] \in {"imm_first", "imm_rest"} => st.mask[i] = 0
                 /\ st.mask[i] = 0 => roles[i] \in {"disp", "imm_first", "imm_rest"}

\* A candidate that accepted a branch with an immediate of two bytes.
C23_Witness ==
    \E k \in DOMAIN s_states :
        /\ s_states[k].instrs >= 1
        /\ \E i \in DOMAIN s_states[k].mask :
              MaskRoles(s_states[k])[i] = "imm_first"

RECURSIVE Tokens(_)
\* The pieces of a string between its spaces; two spaces in a row, or a space
\* at either end, give an empty piece.
Tokens(str) ==
    IF \A i \in DOMAIN str : str[i] # " " THEN << str >>
    ELSE LET i == CHOOSE j \in DOMAIN str :
                      str[j] = " " /\ \A h \in 1..(j - 1) : str[h] # " "
         IN << SubSeq(str, 1, i - 1) >> \o Tokens(SubSeq(str, i + 1, Len(str)))

\* The value of an uppercase hexadecimal digit, -1 for any other character.
HexVal(c) ==
    IF \E v \in 1..16 : HexDigits[v] = c
    THEN (CHOOSE v \in 1..16 : HexDigits[v] = c) - 1
    ELSE 0 - 1

\* C24: a rendered signature has one token for each mask byte, the tokens
\* separated by single spaces; token i is ? where mask[i] is 0x00 and else
\* the two uppercase hexadecimal digits of buf[i]; a mask byte is 0x00 or 0xFF.
C24_Format ==
    \A n \in DOMAIN s_out :
        LET st == s_states[n]
            toks == Tokens(s_out[n])
        IN /\ \A i \in DOMAIN st.mask : st.mask[i] \in {0, 255}
           /\ st.mask = <<>> => s_out[n] = <<>>
           /\ st.mask # <<>> =>
                 /\ Len(toks) = Len(st.mask)
                 /\ \A i \in DOMAIN toks :
                       IF st.mask[i] = 0
                       THEN toks[i] = << "?" >>
                       ELSE /\ Len(toks[i]) = 2
                            /\ HexVal(toks[i][1]) >= 0
                            /\ HexVal(toks[i][2]) >= 0
                            /\ 16 * HexVal(toks[i][1]) + HexVal(toks[i][2]) = st.buf[i]

\* A rendering with a wildcard, a byte below 16 and a byte with letter digits.
C24_Witness ==
    \E n \in DOMAIN s_out :
        /\ Len(s_states[n].mask) = SigLen
        /\ \E i, j, h \in DOMAIN s_states[n].mask :
              /\ s_states[n].mask[i] = 0
              /\ s_states[n].mask[j] = 255 /\ s_states[n].buf[j] < 16
              /\ s_states[n].mask[h] = 255 /\ s_states[n].buf[h] > 160

\* find_sigs emitted a signature for candidate k.
Emitted(k) == s_out # <<>> /\ k \in DOMAIN s_dups /\ s_dups[k] = 0

\* The decoded prefixes of the candidates j and k differ only in bytes that
\* their common mask wildcards, a displacement among them.
SamePrefix(j, k) ==
    /\ s_states[j].start_ip # s_states[k].start_ip
    /\ s_states[j].mask = s_states[k].mask
    /\ \E i \in DOMAIN s_states[j].mask : s_states[j].mask[i] = 0
    /\ \A i \in DOMAIN s_states[j].mask :
          s_states[j].mask[i] = 0 \/ s_states[j].buf[i] = s_states[k].buf[i]

\* The memory image at a equals the candidate's bytes wherever its mask is
\* not a wildcard.
ImageHolds(st, a) ==
    \A i \in DOMAIN st.mask :
        \/ st.mask[i] = 0
        \/ (IF a + i - 1 \in Addrs THEN mem[a + i - 1] ELSE 0) = st.buf[i]

\* The unmasked bytes of the candidates j and k occur at no other address of
\* the module's code sections.
NowhereElse(j, k) ==
    \A a \in RangeAddrs(TargetRanges(s_target)) \ {s_states[j].start_ip, s_states[k].start_ip} :
        ~ImageHolds(s_states[j], a) /\ ~ImageHolds(s_states[k], a)

\* C25 as stated: when find_sigs returns Ok and two candidates' decoded
\* prefixes differ only in wildcarded displacement bytes, the other bytes
\* occurring nowhere else in the code sections, both candidates are emitted.
C25_BothEmit ==
    (s_pc = "idle" /\ s_ret = "Ok") =>
        \A j, k \in DOMAIN s_states :
            (SamePrefix(j, k) /\ NowhereElse(j, k)) => (Emitted(j) /\ Emitted(k))

\* C25, amended: a candidate whose masked prefix also holds, in delivered
\* bytes, at another candidate's address is not emitted: each of two
\* candidates that differ only in wildcarded bytes counts the other as a
\* duplicate match.
C25_NeitherEmits ==
    (s_pc = "idle" /\ s_ret = "Ok") =>
        \A j, k \in DOMAIN s_states :
            (/\ SamePrefix(j, k)
             /\ ImageMatch(s_states[j], s_states[k].start_ip)
             /\ ImageMatch(s_states[k], s_states[j].start_ip))
                => (~Emitted(j) /\ ~Emitted(k))

\* A call that returned Ok with two candidates of two instructions each that
\* differ only in the displacement and match nowhere else.
C25_Witness ==
    /\ s_pc = "idle" /\ s_ret = "Ok"
    /\ \E j, k \in DOMAIN s_states :
          /\ SamePrefix(j, k)
          /\ NowhereElse(j, k)
          /\ s_states[j].instrs >= 2
          /\ ImageMatch(s_states[j], s_states[k].start_ip)
          /\ ImageMatch(s_states[k], s_states[j].start_ip)

\* --------------------------------------------------------------- PBar claims

\* C26: whatever the producers added or set and whenever the thread sampled,
\* once the PBar is finished or dropped the thread leaves its loop and shows
\* nothing after that, drop returns, and it returns only after the thread has
\* ended; the thread ends once.
C26_Shutdown ==
    /\ [](pb_handle = "joining" => <>(pb_thread = "exited"))
    /\ [](pb_handle = "joining" => <>(pb_handle = "joined"))
    /\ [](pb_handle = "joined" => pb_thread = "exited")
    /\ [](pb_thread = "exited" => (pb_shown = ShownFinish /\ pb_exits = 1))
    /\ [](pb_exits <= 1)

\* A PBar dropped without a finish call: its thread has ended and the drop
\* has returned.
C26_Witness ==
    /\ pb_handle = "joined"
    /\ ~pb_finish
    /\ pb_thread = "exited"
    /\ pb_exits = 1

\* ------------------------------------------ Disasm claims: scratch buffers

\* C27: while a module task is enumerating the section headers parsed out of
\* its worker's image buffer, no other task reads into that buffer: the
\* buffer keeps its contents and the worker starts no other module task.
C27_ImageExclusive ==
    [][\A mi \in DOMAIN d_mod :
          (d_pc = "collect" /\ d_mod[mi].st = "open" /\ d_mod[mi].next <= d_mod[mi].nsec)
              => /\ d_image'[d_mod[mi].owner] = d_image[d_mod[mi].owner]
                 /\ Len(d_stack'[d_mod[mi].owner]) <= Len(d_stack[d_mod[mi].owner])]_vars

\* ------------------------------------------------------------- CLI claims

\* offset_scan {lower range} {upper range}: the two arguments are parsed in
\* this order and handed on as the pair (lrange, urange).
OffsetScanRange(lower, upper) == << lower, upper >>

\* The scan area the command's help gives for the address p:
\* [p - lower range, p + upper range].
ScanArea(p, lower, upper) == { x \in Int : p - lower <= x /\ x <= p + upper }

\* C28: with the arguments {lower range} L and {upper range} U of
\* offset_scan, the area searched around an address p is [p - L, p + U]:
\* every pair (x, off) of a returned chain, found around p = x + off, has x
\* in that area, and a search target with an entry point in its area gets a
\* chain.
C28_ScanArea ==
    (w_pc = "done") =>
        \E L \in 0..w_query.range[1], U \in 0..w_query.range[2] :
            /\ w_query.range = OffsetScanRange(L, U)
            /\ \A j \in DOMAIN w_result : \A i \in DOMAIN w_result[j][2] :
                  LET x == w_result[j][2][i][1]
                      off == w_result[j][2][i][2]
                  IN x \in ScanArea(x + off, L, U)
            /\ \A t \in DOMAIN w_query.search_for :
                  LET p == w_query.search_for[t]
                  IN (\E e \in DOMAIN w_query.entry_points :
                          w_query.entry_points[e] \in ScanArea(p, L, U))
                        => \E j \in DOMAIN w_result : w_result[j][1] = p

\* ------------------------------------ ValueScanner claims: completeness

\* Every stride read of range r of mem_map, for the pattern p, delivers all
\* its bytes.
RangeReadsSucceed(r, p) ==
    \A k \in 0..(NumStrides(mem_map[r][2]) - 1) :
        FullyDelivered(mem_map[r][1] + k * Stride, Stride + Len(p) - 1)

\* How many times a occurs in the list ms.
Occurrences(ms, a) == Cardinality({ k \in DOMAIN ms : ms[k] = a })

\* C29: after the first scan_for with a non-empty pattern p, every address of
\* a range of mem_map whose stride reads all succeeded, at which the target
\* holds p, occurs in matches exactly once, also where the occurrence
\* straddles a stride boundary.
C29_SweepComplete ==
    (pc = "idle" /\ last_op = "sweep" /\ last_call.data # <<>> /\ ~last_call.fatal) =>
        \A r \in DOMAIN mem_map :
            RangeReadsSucceed(r, last_call.data) =>
                \A a \in mem_map[r][1]..(mem_map[r][1] + mem_map[r][2] - 1) :
                    SnapshotHolds(a, last_call.data) => Occurrences(matches, a) = 1

\* A first scan_for that found an occurrence across the stride boundary and
\* one inside a stride, in a range whose reads succeeded.
C29_Witness ==
    /\ pc = "idle" /\ last_op = "sweep" /\ ~last_call.fatal
    /\ Len(last_call.data) = 2
    /\ \E r \in DOMAIN mem_map :
          /\ RangeReadsSucceed(r, last_call.data)
          /\ mem_map[r][2] > Stride
          /\ SnapshotHolds(mem_map[r][1] + Stride - 1, last_call.data)
          /\ Occurrences(matches, mem_map[r][1] + Stride - 1) = 1
          /\ Occurrences(matches, mem_map[r][1]) = 1

\* ---------------------------------------- ValueScanner claims: refinement

\* No byte of the n bytes at a is delivered by a read.
Undelivered(a, n) == \A i \in 0..(n - 1) : ~Delivered(a + i)

\* C30: a refinement with a non-empty pattern p retains an address of the
\* previous matches if and only if the target holds p at it; an address
\* whose read delivers nothing is not retained, whatever the worker's buffer
\* held.
C30_RefineExact ==
    [][(pc = "refine" /\ pc' = "idle" /\ data # <<>>) =>
          \A k \in DOMAIN old_matches :
              LET a == old_matches[k]
                  n == Len(data)
                  retained == \E j \in DOMAIN matches' : matches'[j] = a
              IN /\ (call_ok /\ SnapshotHolds(a, data)) => retained
                 /\ (FullyDelivered(a, n) /\ ~SnapshotHolds(a, data)) => ~retained
                 /\ Undelivered(a, n) => ~retained]_vars

\* ------------------------------------------- PointerMap claims: completeness

\* The first address of stride s of the enumerated ranges.
StrideStart(s) == pm_mem_map[s[1]][1] + s[2] * Stride

\* The addresses of stride s that lie inside its range.
StrideAddrs(s) ==
    { StrideStart(s) + o : o \in 0..(Min(Stride, pm_mem_map[s[1]][2] - s[2] * Stride) - 1) }

\* The little-endian value of the size_addr bytes of the target at k.
PointerAt(k) == LeValue(TargetBytes(k, size_addr))

\* v is an address inside one of the enumerated ranges.
InSomeRange(v) ==
    \E r \in DOMAIN pm_mem_map : v >= pm_mem_map[r][1] /\ v < pm_mem_map[r][1] + pm_mem_map[r][2]

\* The pairs a list of edges holds.
EdgeSet(es) == { es[i] : i \in DOMAIN es }

\* The edges es are what stride s owes: the edge (k, v) of every address k of
\* the stride inside its range whose size_addr bytes were delivered and
\* decode to an address v inside an enumerated range, and nothing else when
\* the stride's read delivered every byte.
StrideComplete(s, es) ==
    /\ \A k \in StrideAddrs(s) :
          (FullyDelivered(k, size_addr) /\ InSomeRange(PointerAt(k)))
              => << k, PointerAt(k) >> \in EdgeSet(es)
    /\ FullyDelivered(StrideStart(s), Stride + size_addr - 1)
          => EdgeSet(es)
                = { << k, PointerAt(k) >> :
                      k \in { a \in StrideAddrs(s) : InSomeRange(PointerAt(a)) } }

\* C31: a stride whose read reports no error (a step that changes a buffer
\* or the edges, or is a step of BuildStride without a fatal error) emits
\* what it owes, the edge (k, v) of every
\* address k of the stride inside its range whose size_addr bytes were
\* delivered and decode, little-endian, to an address v inside an enumerated
\* range, at every byte offset and also where the bytes reach into the next
\* stride; when the read delivered every byte these are all the edges of
\* the stride; and create_map ends with map holding exactly the edges the
\* strides emitted.
C31_MapComplete ==
    /\ [][\A s \in pm_todo \ pm_todo' :
            (/\ pm_pc = "build"
             /\ \/ pm_buf' # pm_buf
                \/ pm_found' # pm_found
                \/ \E w \in Workers, keep \in BOOLEAN : BuildStride(w, s, FALSE, keep))
                => StrideComplete(s, pm_found'[s])]_vars
    /\ [][CreateFinish =>
            { << k, map'[k] >> : k \in DOMAIN map' }
                = UNION { EdgeSet(pm_found[s]) : s \in DOMAIN pm_found }]_vars

\* create_map with pointers of two bytes returned a map with two keys, one
\* of them the last address of the first stride, whose pointer reaches into
\* the second stride.
C31_Witness ==
    /\ pm_pc = "idle" /\ pm_last = "create_map"
    /\ size_addr = 2
    /\ FullyDelivered(0, 2 * Stride)
    /\ (Stride - 1) \in DOMAIN map
    /\ map[Stride - 1] = PointerAt(Stride - 1)
    /\ Cardinality(DOMAIN map) >= 2

\* --------------------------------------------------- walker claims: entries

RECURSIVE VisitsFrom(_, _, _, _)
\* The visits <<addr, tmp>> the walk of call c makes from walk_down_range(addr)
\* at the given level with the stack tmp: the visit itself and, below
\* max_depth, one visit for every source of every key of inverse_map inside
\* the window around addr.
VisitsFrom(c, addr, level, tmp) ==
    { << addr, tmp >> } \cup
    (IF level < c.max_depth
     THEN UNION { UNION { VisitsFrom(c, inverse_map[k][i], level + 1,
                                     Append(tmp, << k, signed_diff(addr, k) >>))
                          : i \in DOMAIN inverse_map[k] }
                  : k \in { x \in DOMAIN inverse_map :
                              SatSub(addr, c.range[2]) <= x /\ x <= addr + c.range[1] } }
     ELSE {})

\* The entry points of call c inside [addr - urange, addr + lrange].
EntryWindow(c, addr) ==
    { c.entry_points[i] : i \in DOMAIN c.entry_points } \cap
    (SatSub(addr, c.range[2])..(addr + c.range[1]))

\* The positions of w_result whose chain the visit <<addr, tmp>> of target m
\* pushed: the stack reversed behind one entry pair that leads to addr.
VisitChains(m, v) ==
    { j \in DOMAIN w_result :
        /\ w_result[j][1] = m
        /\ Len(w_result[j][2]) = Len(v[2]) + 1
        /\ Tail(w_result[j][2]) = Reverse(v[2])
        /\ w_result[j][2][1][1] + w_result[j][2][1][2] = v[1] }

\* C32: with entry_points ascending, every visit walk_down_range(addr, level)
\* pushes at most one chain; when an entry point lies in
\* [addr - urange, addr + lrange] it pushes exactly one, whose entry e is an
\* entry point of that window, no entry point of the window is closer to
\* addr, and whose first offset is addr - e; every returned chain is the
\* chain of a visit.
C32_SingleClosest ==
    (w_pc = "done") =>
        /\ \A t \in DOMAIN w_query.search_for :
              \A v \in VisitsFrom(w_query, w_query.search_for[t], 1, <<>>) :
                  LET hits == VisitChains(w_query.search_for[t], v)
                      win == EntryWindow(w_query, v[1])
                  IN /\ Cardinality(hits) <= 1
                     /\ win # {} =>
                           /\ Cardinality(hits) = 1
                           /\ \A j \in hits :
                                 LET e == w_result[j][2][1][1]
                                 IN /\ e \in win
                                    /\ \A x \in win : Abs(v[1] - e) <= Abs(v[1] - x)
                                    /\ w_result[j][2][1][2] = v[1] - e
        /\ \A j \in DOMAIN w_result :
              \E t \in DOMAIN w_query.search_for :
                  /\ w_query.search_for[t] = w_result[j][1]
                  /\ \E v \in VisitsFrom(w_query, w_result[j][1], 1, <<>>) :
                        j \in VisitChains(w_result[j][1], v)

\* A walk in which a visit below the first level had two entry points at
\* different distances in its window and pushed the chain of the closer,
\* and another visit had no entry point in its window.
C32_Witness ==
    /\ w_pc = "done"
    /\ \E t \in DOMAIN w_query.search_for :
          LET vs == VisitsFrom(w_query, w_query.search_for[t], 1, <<>>)
          IN /\ \E v \in vs :
                   /\ v[2] # <<>>
                   /\ Cardinality(EntryWindow(w_query, v[1])) = 2
                   /\ \E x, y \in EntryWindow(w_query, v[1]) : Abs(v[1] - x) < Abs(v[1] - y)
                   /\ Cardinality(VisitChains(w_query.search_for[t], v)) = 1
             /\ \E v \in vs :
                   /\ EntryWindow(w_query, v[1]) = {}
                   /\ VisitChains(w_query.search_for[t], v) = {}

\* ------------------------------------------------ Disasm claims: the strides

RECURSIVE SweepEnd(_, _)
\* The end address of the last instruction that starts before end when the
\* memory image is decoded one instruction after the other from ip.
SweepEnd(ip, end) ==
    IF ip >= end THEN ip
    ELSE CHOOSE a \in { SweepEnd(ip + ins.len, end) : ins \in {ImageInstr(ip)} } : TRUE

\* The strides a section task has finished.
StridesDone(t) == ChunksOf(t.end - t.start) - t.left

\* C33: in a section task whose stride reads so far reported no error and
\* delivered the image's bytes, the next stride starts at an instruction
\* start of the linear sweep of the section, at least one stride length
\* further per finished stride; a stride then emits exactly the edges of the
\* sweep's instructions from its start to its limit (the section end or
\* start + stride length), the stride after it starts at the end of the last
\* instruction that starts before that limit, and the limit of the last
\* stride is the section end.
C33_Resumption ==
    /\ [](\A w \in Workers :
            (d_pc = "collect" /\ d_task[w] # NoTask /\ d_task[w].clean) =>
                /\ SweepEnd(d_task[w].start, d_task[w].addr) = d_task[w].addr
                /\ d_task[w].addr >= d_task[w].start + StridesDone(d_task[w]) * DChunk)
    /\ [][\A w \in Workers, keep \in BOOLEAN :
            (/\ d_pc = "collect" /\ d_task[w] # NoTask /\ d_task[w].clean
             /\ HoldsImage(ReadInto(d_bytes[w], d_task[w].addr, keep), d_task[w].addr)
             /\ ChunkStep(w, FALSE, keep)) =>
                LET t == d_task[w]
                    limit == Min(t.end, t.addr + DChunk)
                IN /\ d_out'[t.mi] = d_out[t.mi] \o SweepEdges(t.addr, limit)
                   /\ t.left > 1 =>
                         d_task'[w].addr = IF t.addr < limit THEN SweepEnd(t.addr, limit)
                                           ELSE t.addr + DChunk
                   /\ t.left = 1 => limit = t.end]_vars

\* A section task before its last stride, its reads clean so far: the first
\* stride ended with an instruction that reaches over the stride limit, its
\* edge was emitted, and the next stride starts behind that instruction.
C33_Witness ==
    /\ d_pc = "collect"
    /\ \E w \in Workers :
          LET t == d_task[w]
          IN /\ t # NoTask /\ t.clean /\ t.left = 1
             /\ t.addr = t.start + DChunk + 1
             /\ t.addr < t.end
             /\ \E i \in DOMAIN d_out[t.mi] : d_out[t.mi][i][1] = t.start + DChunk - 1

\* C34: when the read of one stride of a code section fails, the stride
\* contributes no edges and the sweep goes on with the stride that follows
\* it in the section.
C34_StrideSkipped ==
    [][\A w \in Workers, keep \in BOOLEAN :
          (/\ d_pc = "collect" /\ d_task[w] # NoTask /\ d_task[w].left > 1
           /\ ChunkStep(w, TRUE, keep)) =>
              /\ d_out' = d_out
              /\ d_task'[w].addr = d_task[w].addr + DChunk]_vars

\* ------------------------------------------- Sigmaker claims: the round loop

\* C35: the loop of find_sigs ends: a call inside the loop leaves it; the
\* loop goes on to another round only after a round in which some candidate
\* accepted an instruction and every candidate had a duplicate match; a call
\* that returns Ok out of the loop does so after a round in which no
\* candidate accepted an instruction or some candidate was unique; and
\* since every accepted instruction takes at least one byte of the
\* candidate's buffer, the rounds number at most the buffer's length plus
\* one.
C35_Terminates ==
    /\ (s_pc = "rounds") ~> (s_pc = "idle")
    /\ [](s_pc \in {"rounds", "idle"} => s_rounds <= SigLen + 1)
    /\ [][(s_pc = "rounds" /\ s_pc' = "rounds") =>
            /\ \E k \in DOMAIN s_states : s_states'[k].instrs > s_states[k].instrs
            /\ \A k \in DOMAIN s_states' : s_dups'[k] > 0]_vars
    /\ [][(s_pc = "rounds" /\ s_pc' = "idle" /\ s_ret' = "Ok") =>
            \/ \A k \in DOMAIN s_states : s_states'[k].instrs = s_states[k].instrs
            \/ s_out' # <<>>]_vars
    /\ [](\A k \in DOMAIN s_states :
            /\ s_states[k].instrs <= s_states[k].pos
            /\ s_states[k].pos <= Len(s_states[k].buf))

\* A call that ran three rounds and returned Ok without a signature: its
\* last round found no candidate accepting an instruction.
C35_Witness ==
    /\ s_pc = "idle"
    /\ s_ret = "Ok"
    /\ s_rounds >= 3
    /\ s_out = <<>>

RECURSIVE AcceptedBytes(_, _, _, _)
\* The positions (from 1) of the bytes of buf that belong to the first n
\* instructions a candidate accepts when its decoder starts at position i:
\* what the decoder returns INVALID for is passed over.
AcceptedBytes(buf, i, ip, n) ==
    IF n = 0 \/ i > Len(buf) THEN {}
    ELSE CHOOSE S \in
            { (IF ins.invalid THEN AcceptedBytes(buf, i + ins.len, ip + ins.len, n)
               ELSE (i..(i + ins.len - 1))
                        \cup AcceptedBytes(buf, i + ins.len, ip + ins.len, n - 1))
              : ins \in {Decode(buf, i, ip)} } : TRUE

\* C36: after every add_single_instr, the mask of a candidate is as long as
\* its accepted instructions together and no longer than the buffer, and
\* the accepted instructions are the bytes buf[0 .. |mask|) of the buffer,
\* also after the decoder returned INVALID for the candidate.
C36_MaskShape ==
    \A k \in DOMAIN s_states :
        LET st == s_states[k]
            acc == AcceptedBytes(st.buf, 1, st.start_ip, st.instrs)
        IN /\ Len(st.mask) = Cardinality(acc)
           /\ Len(st.mask) <= Len(st.buf)
           /\ acc = 1..Len(st.mask)

\* ---------------------------------------- Sigmaker claims: displacements

RECURSIVE AcceptedInstrBytes(_, _, _, _)
\* For every byte of the first n instructions a candidate accepts, in order:
\* the instruction and the byte's offset in it.
AcceptedInstrBytes(buf, i, ip, n) ==
    IF n = 0 \/ i > Len(buf) THEN <<>>
    ELSE CHOOSE r \in
            { (IF ins.invalid THEN AcceptedInstrBytes(buf, i + ins.len, ip + ins.len, n)
               ELSE [j \in 1..ins.len |-> [ins |-> ins, off |-> j - 1]]
                        \o AcceptedInstrBytes(buf, i + ins.len, ip + ins.len, n - 1))
              : ins \in {Decode(buf, i, ip)} } : TRUE

\* The byte b of an instruction lies in the displacement the decoder reports.
InDisplacement(b) ==
    LET co == ConstantOffsets(b.ins)
    IN /\ co.has_displacement
       /\ b.off >= co.displacement_offset
       /\ b.off < co.displacement_offset + co.displacement_size

\* The byte b of an instruction lies in the immediate the decoder reports.
InImmediate(b) ==
    LET co == ConstantOffsets(b.ins)
    IN /\ co.has_immediate
       /\ b.off >= co.immediate_offset
       /\ b.off < co.immediate_offset + co.immediate_size

\* C37: in the mask of every accepted instruction a displacement byte is
\* 0x00 exactly when the instruction's memory base register is one of EIP,
\* RIP, ES, CS, SS, DS, FS, GS or none, with any other base register it is
\* 0xFF, and every byte outside displacement and immediate is 0xFF.
C37_Displacement ==
    \A k \in DOMAIN s_states :
        LET st == s_states[k]
            bs == AcceptedInstrBytes(st.buf, 1, st.start_ip, st.instrs)
        IN /\ Len(bs) = Len(st.mask)
           /\ \A i \in DOMAIN st.mask :
                 /\ InDisplacement(bs[i]) =>
                       /\ st.mask[i] = 0 <=>
                             bs[i].ins.memory_base \in
                                 {"EIP", "RIP", "ES", "CS", "SS", "DS", "FS", "GS", "None"}
                       /\ st.mask[i] \in {0, 255}
                 /\ (~InDisplacement(bs[i]) /\ ~InImmediate(bs[i])) => st.mask[i] = 255

\* A candidate that accepted an instruction whose memory operand has a
\* general register as base: its displacement byte kept 0xFF.
C37_Witness ==
    \E k \in DOMAIN s_states :
        LET st == s_states[k]
            bs == AcceptedInstrBytes(st.buf, 1, st.start_ip, st.instrs)
        IN /\ st.instrs >= 1
           /\ Len(bs) = Len(st.mask)
           /\ \E i \in DOMAIN st.mask :
                 /\ InDisplacement(bs[i])
                 /\ bs[i].ins.memory_base = "RBX"
                 /\ st.mask[i] = 255

\* ------------------------------------------------------ CLI claims: remove

\* C38: the remove command with an index that is not below the number of
\* matches leaves matches as it was and the command loop running.
C38_RemoveBadIndex ==
    [][Remove(Len(matches)) => (pc' = "idle" /\ matches' = matches)]_vars

\* ------------------------------------------- ValueScanner claims: the ranges

\* C39: after a first scan_for whose reads all delivered every byte, every
\* address of matches lies in [base, base + size) of a range of mem_map.
C39_MatchesInRanges ==
    (pc = "idle" /\ last_op = "sweep" /\ last_call.valid /\ last_call.ok /\ ~last_call.fatal) =>
        \A k \in DOMAIN matches :
            \E r \in DOMAIN mem_map :
                /\ mem_map[r][1] <= matches[k]
                /\ matches[k] < mem_map[r][1] + mem_map[r][2]

=============================================================================
